---- MODULE Spec2Model ----
(***************************************************************************)
(* Model of the stocks-mcp-server data fetchers and their caches:          *)
(*   - utils/gcpmanager.py      GCSManager (object storage), BQManager     *)
(*   - utils/crawler/fnguide.py FnGuideCrawler, FnGuideMain                *)
(*   - utils/yahoofinance.py    Fundamentals                               *)
(*   - utils/companydict.py     companydict                                *)
(*   - fundamentals.py          the MCP tools                              *)
(*                                                                         *)
(* Python strings are modelled as sequences of tokens (each token a TLA+   *)
(* string); lstrip, startswith, endswith, "in" and replace work on token   *)
(* boundaries.  Korean literals are transliterated to ASCII:               *)
(*   PogwalSonikGyesanseo = income statement table title,                  *)
(*   JaemuSangtaepyo      = balance sheet table title,                     *)
(*   HyeongeumHeureumpyo  = cash flow table title,                         *)
(*   SamsungJeonja        = the Korean name of Samsung Electronics.        *)
(* Python's None is the one-token text <<"None">>, which no path or file   *)
(* content equals; a raised exception is [raised |-> TRUE, exc |-> type].  *)
(***************************************************************************)
EXTENDS Integers, Sequences, FiniteSets, TLC

VARIABLES
    today,      \* date.today(): [year, month]
    gcs,        \* the bucket: blob name -> content, for the blobs that exist
    bq,         \* the BigQuery destination table: "NotFound" or a sequence of rows
    fetches,    \* yfinance statement fetches made so far
    last        \* observation of the last completed call

vars == <<today, gcs, bq, fetches, last>>

None == <<"None">>

----------------------------------------------------------------------------
(* Python str operations on token sequences *)

\* str.lstrip("/")
RECURSIVE lstrip(_)
lstrip(s) == IF s # <<>> /\ Head(s) = "/" THEN lstrip(Tail(s)) ELSE s

\* str.rstrip("/")
RECURSIVE rstrip(_)
rstrip(s) ==
    IF s # <<>> /\ s[Len(s)] = "/" THEN rstrip(SubSeq(s, 1, Len(s) - 1)) ELSE s

\* str.startswith(prefix)
startswith(s, p) == Len(p) <= Len(s) /\ SubSeq(s, 1, Len(p)) = p

\* str.endswith(suffix)
endswith(s, p) == Len(p) <= Len(s) /\ SubSeq(s, Len(s) - Len(p) + 1, Len(s)) = p

\* "p in s" for strings
contains(s, p) ==
    \E i \in 1..(Len(s) - Len(p) + 1) : SubSeq(s, i, i + Len(p) - 1) = p

\* str.replace(old, new) for a one-token old
replace(s, old, new) == [i \in 1..Len(s) |-> IF s[i] = old THEN new ELSE s[i]]

\* str.split("/"): the segments between "/" tokens, each a token sequence
RECURSIVE split(_, _, _)
split(s, cur, acc) ==
    IF s = <<>> THEN Append(acc, cur)
    ELSE IF Head(s) = "/" THEN split(Tail(s), <<>>, Append(acc, cur))
    ELSE split(Tail(s), Append(cur, Head(s)), acc)

\* str(n) for the integers the paths are built from
Str(n) ==
    CASE n = 1 -> "1" [] n = 2 -> "2" [] n = 3 -> "3" [] n = 4 -> "4"
      [] n = 2025 -> "2025" [] n = 2026 -> "2026"

Raise(e) == [raised |-> TRUE, exc |-> e]
Return(v) == [raised |-> FALSE, value |-> v]

\* an optional argument: given, or left at its default None
Some(v) == [some |-> TRUE, v |-> v]
Absent == [some |-> FALSE]

----------------------------------------------------------------------------
(* utils/gcpmanager.py: GCSManager.                                        *)
(* A manager is [available |-> BOOLEAN]: whether storage.Client() came up. *)
(* An operation takes the bucket g and a flag fail: the storage request    *)
(* of that operation raises.  list_files returns the SET of listed names:  *)
(* its order (time_created, newest first) is the environment's choice and  *)
(* is resolved where a caller depends on it.                               *)

\* GCSManager.__init__
GCSManager(clientOk) == [available |-> clientOk]

\* GCSManager._normalize_blob_name
_normalize_blob_name(name) == lstrip(name)

\* GCSManager.list_files(folder_name)
list_files(m, g, fail, folder_name) ==
    IF ~m.available THEN {}
    ELSE IF fail THEN {}
    ELSE LET normalized == _normalize_blob_name(folder_name)
             prefixes == IF normalized # <<>> /\ normalized # folder_name
                         THEN {folder_name, normalized} ELSE {folder_name}
         IN  {n \in DOMAIN g : \E p \in prefixes : startswith(n, p)}

\* the bucket after a successful write of blob name n
Written(g, n, content) == [x \in (DOMAIN g) \cup {n} |-> IF x = n THEN content ELSE g[x]]

\* GCSManager.upload_file: [ok |-> returned value, g |-> bucket afterwards]
upload_file(m, g, fail, source_file, destination_blob_name) ==
    LET stripped == _normalize_blob_name(destination_blob_name)
        normalized_name == IF stripped = <<>> THEN destination_blob_name ELSE stripped
    IN  IF ~m.available THEN [ok |-> FALSE, g |-> g]
        ELSE IF fail THEN [ok |-> FALSE, g |-> g]
        ELSE [ok |-> TRUE, g |-> Written(g, normalized_name, source_file)]

\* GCSManager.read_file: the text of the first candidate that downloads, else None.
\* unreadable is the set of blob names whose download raises.
read_file(m, g, unreadable, blob_name) ==
    LET normalized == _normalize_blob_name(blob_name)
        candidate_names == IF normalized # <<>> /\ normalized # blob_name
                           THEN <<blob_name, normalized>> ELSE <<blob_name>>
        ok(n) == n \in DOMAIN g /\ n \notin unreadable
        hits == {i \in 1..Len(candidate_names) : ok(candidate_names[i])}
    IN  IF ~m.available THEN None
        ELSE IF hits = {} THEN None
        ELSE g[candidate_names[CHOOSE i \in hits : \A j \in hits : i <= j]]

\* ensure_folder without the test of _storage_available
ensure_folder_unguarded(m, g, fail, folder_name) ==
    IF folder_name = <<>> THEN [ok |-> TRUE, g |-> g]
    ELSE LET stripped == _normalize_blob_name(folder_name)
             n0 == IF stripped = <<>> THEN folder_name ELSE stripped
             normalized == IF endswith(n0, <<"/">>) THEN n0 ELSE n0 \o <<"/">>
         IN  IF fail THEN [ok |-> FALSE, g |-> g]
             ELSE IF normalized \in DOMAIN g THEN [ok |-> TRUE, g |-> g]
             ELSE [ok |-> TRUE, g |-> Written(g, normalized, <<>>)]

\* GCSManager.ensure_folder: [ok |-> returned value, g |-> bucket afterwards]
ensure_folder(m, g, fail, folder_name) ==
    IF folder_name = <<>> THEN [ok |-> TRUE, g |-> g]
    ELSE IF ~m.available THEN [ok |-> FALSE, g |-> g]
    ELSE LET stripped == _normalize_blob_name(folder_name)
             n0 == IF stripped = <<>> THEN folder_name ELSE stripped
             normalized == IF endswith(n0, <<"/">>) THEN n0 ELSE n0 \o <<"/">>
             alt_name == IF endswith(folder_name, <<"/">>) THEN folder_name
                         ELSE folder_name \o <<"/">>
         IN  IF fail THEN [ok |-> FALSE, g |-> g]
             ELSE IF normalized \in DOMAIN g THEN [ok |-> TRUE, g |-> g]
             ELSE IF alt_name # normalized /\ alt_name \in DOMAIN g THEN [ok |-> TRUE, g |-> g]
             ELSE [ok |-> TRUE, g |-> Written(g, normalized, <<>>)]

----------------------------------------------------------------------------
(* utils/crawler/fnguide.py: names, folders and cache resolution *)

QUARTER_PREFIX == "quarter="

finance_table_titles == <<"PogwalSonikGyesanseo", "JaemuSangtaepyo", "HyeongeumHeureumpyo">>

\* FnGuideMain._main_table_selectors, the table names (the indices select
\* frames of the snapshot page)
_main_table_selectors ==
    << "market_conditions", "earning_issue", "holdings_status", "governance",
       "shareholders", "bond_rating", "analysis", "industry_comparison",
       "financialhighlight_annual", "financialhighlight_netquarter" >>

\* The value of the expression FnGuideMain.main_table_selectors.  The
\* attribute is declared @property over @staticmethod and is read on the
\* CLASS, so the expression evaluates to the property object itself and
\* not to the list the getter would return.
main_table_selectors == [type |-> "property"]

\* "for name, _ in obj": iterating a list yields its items, iterating a
\* property object raises TypeError
iterate(obj) == IF obj.type = "list" THEN Return(obj.items) ELSE Raise("TypeError")

\* the quarter with month // 4 + 1
quarter_of_div4(month) == month \div 4 + 1

\* quarter = (today.month - 1) // 3 + 1
quarter_of(month) == (month - 1) \div 3 + 1

\* folder_name in get_all_fundamentals
folder_name_of(year, quarter) ==
    <<"Fundamentals", "/", "FnGuide", "/", "year=", Str(year), "/",
      QUARTER_PREFIX, Str(quarter), "/">>

\* FnGuideCrawler._partition_alias
_partition_alias(folder_name) ==
    IF ~contains(folder_name, <<QUARTER_PREFIX>>) THEN None
    ELSE replace(folder_name, QUARTER_PREFIX, "quater=")

\* FnGuideCrawler._legacy_folder_from_current; year and quarter are token
\* sequences or None
_legacy_folder_from_current(folder_name, stock, year, quarter) ==
    LET parts == split(rstrip(folder_name), <<>>, <<>>)
    IN  IF Len(parts) < 4 THEN None
        ELSE IF parts[1] # <<"Fundamentals">> \/ parts[2] # <<"FnGuide">> THEN None
        ELSE LET year_part == parts[3]
                 quarter_part == parts[4]
             IN  IF ~startswith(year_part, <<"year=">>)
                    \/ ~(startswith(quarter_part, <<QUARTER_PREFIX>>)
                         \/ startswith(quarter_part, <<"quater=">>))
                 THEN None
                 ELSE LET year_value == IF year # None THEN year ELSE Tail(year_part)
                          quarter_value == IF quarter # None THEN quarter
                                           ELSE Tail(quarter_part)
                      IN  <<"/", "Fundamentals", "/", "FnGuide", "/">> \o stock
                            \o <<"/">> \o year_value \o <<"-Q">> \o quarter_value
                            \o <<"/", "raw", "/">>

\* FnGuideCrawler._collect_existing_files: the mapping {name variant: actual
\* blob}.  setdefault keeps the first value of a key: a stripped name that
\* is also a listed blob maps to itself or to the slashed blob, whichever the
\* listing order puts first; the model keeps the blob itself.
_collect_existing_files(m, g, fail, folders) ==
    LET wanted == {f \in folders : f # None /\ f # <<>>}
        listed == UNION {list_files(m, g, fail, f) : f \in wanted}
        keys == listed \cup {lstrip(n) : n \in listed}
    IN  [k \in keys |-> IF k \in listed THEN k
                        ELSE CHOOSE n \in listed : lstrip(n) = k]

\* FnGuideCrawler._expand_candidates
_expand_candidates(blob_name) ==
    LET normalized == lstrip(blob_name)
    IN  IF normalized # <<>> /\ normalized # blob_name
        THEN <<blob_name, normalized>> ELSE <<blob_name>>

\* _legacy_candidate_blobs finding no legacy file at all
_legacy_candidate_blobs_none(name, file_base, existing_files) == {}

\* FnGuideCrawler._legacy_candidate_blobs: the SET of blobs it returns
\* candidates for (their order is the order of the listing)
_legacy_candidate_blobs(name, file_base, existing_files) ==
    LET suffixes == {<<"_", name, ".json">>, <<"_", name, ".csv">>}
        matches(key) ==
            LET normalized_key == lstrip(key)
            IN  /\ contains(normalized_key, file_base)
                /\ \E sfx \in suffixes : endswith(normalized_key, sfx)
                /\ ~startswith(normalized_key,
                               <<"Fundamentals", "/", "FnGuide", "/", "year=">>)
    IN  {existing_files[key] : key \in {k \in DOMAIN existing_files : matches(k)}}

\* FnGuideCrawler._resolve_existing_blob for the candidate list
\* _expand_candidates(new_blob) + legacy candidates: the SET of blobs it can
\* return (None when no candidate exists).  A new-partition hit comes first;
\* among several legacy hits the listing order decides.
_resolve_existing_blob(new_candidates, legacy_blobs, existing_files) ==
    LET found(c) == c \in DOMAIN existing_files \/ lstrip(c) \in DOMAIN existing_files
        pick(c) == IF c \in DOMAIN existing_files THEN existing_files[c]
                   ELSE existing_files[lstrip(c)]
        newHits == {i \in 1..Len(new_candidates) : found(new_candidates[i])}
        legacyHits == {b \in legacy_blobs : found(b)}
    IN  IF newHits # {}
        THEN {pick(new_candidates[CHOOSE i \in newHits : \A j \in newHits : i <= j])}
        ELSE IF legacyHits # {} THEN {pick(b) : b \in legacyHits}
        ELSE {None}

----------------------------------------------------------------------------
(* File contents and their parsers.  A text is a token sequence:           *)
(*   <<>>                 the empty text                                   *)
(*   <<"rows">> \o recs   a well-formed CSV (header and rows) or JSON list *)
(*                        holding the records recs                         *)
(*   <<"obj">>            a JSON object; read as CSV, a header without rows*)
(*   <<"garbage">>        neither parseable JSON nor tokenizable CSV       *)

\* pd.read_csv(StringIO(content)) then frame.to_dict(orient="records"),
\* with pd.errors.EmptyDataError caught as in _load_from_gcs
read_csv_records(content) ==
    IF content = <<>> THEN Return(<<>>)
    ELSE IF Head(content) = "rows" THEN Return(Tail(content))
    ELSE IF content = <<"obj">> THEN Return(<<>>)
    ELSE Raise("ParserError")

\* json.loads(content): [raised, isList, value]
json_loads(content) ==
    IF content # <<>> /\ Head(content) = "rows"
    THEN [raised |-> FALSE, isList |-> TRUE, value |-> Tail(content)]
    ELSE IF content = <<"obj">>
    THEN [raised |-> FALSE, isList |-> FALSE, value |-> <<>>]
    ELSE [raised |-> TRUE, exc |-> "JSONDecodeError"]

\* pd.DataFrame(records).to_csv(index=False)
to_csv(records) == <<"rows">> \o records

\* json.dumps(records, ensure_ascii=False): a JSON string
json_dumps(records) == <<"json">> \o records

----------------------------------------------------------------------------
(* utils/crawler/fnguide.py: FnGuideCrawler, cache load and upload.        *)
(* A dict of tables is a sequence of <<name, value>> pairs in insertion    *)
(* order.  env is the environment of one call:                             *)
(*   clientOk    storage.Client() came up                                  *)
(*   listFail    list_blobs raises                                         *)
(*   unreadable  blobs whose download raises                               *)
(*   uploadFail  table names whose upload raises                           *)
(*   folderFail  the placeholder request of ensure_folder raises           *)
(*   main        answer of the snapshot page: "ok", "http_error"           *)
(*   frames      number of tables pd.read_html finds in the snapshot page  *)
(*   finance     answer of the finance page: "ok", "http_error"            *)
(*   tables      table title -> records found in the finance page          *)

\* dict lookups on a sequence of pairs
Keys(d) == {d[i][1] : i \in 1..Len(d)}
Get(d, k) == d[CHOOSE i \in 1..Len(d) : d[i][1] = k][2]
\* d[k] = v for a key that is new or present
Put(d, k, v) ==
    IF k \in Keys(d) THEN [i \in 1..Len(d) |-> IF d[i][1] = k THEN <<k, v>> ELSE d[i]]
    ELSE Append(d, <<k, v>>)

\* the gcs property (lazy GCSManager construction).  GCSManager.__init__
\* catches every exception of its body, so the property never yields None.
gcs_property(env) == [isNone |-> FALSE, available |-> env.clientOk]

LoadNone == [raised |-> FALSE, exc |-> "", isNone |-> TRUE, data |-> <<>>]
LoadData(d) == [raised |-> FALSE, exc |-> "", isNone |-> FALSE, data |-> d]
LoadRaise(e) == [raised |-> TRUE, exc |-> e, isNone |-> FALSE, data |-> <<>>]

\* the loop "for name in all_table_names" of _load_from_gcs: the set of
\* outcomes the listing order allows
RECURSIVE _load_tables(_, _, _, _, _, _, _, _)
_load_tables(m, g, unreadable, folder_name, file_base, existing_files, names, cached_data) ==
    IF names = <<>> THEN {LoadData(cached_data)}
    ELSE
      LET name == Head(names)
          new_blob == folder_name \o file_base \o <<"_", name, ".csv">>
          selections == _resolve_existing_blob(
                            _expand_candidates(new_blob),
                            _legacy_candidate_blobs(name, file_base, existing_files),
                            existing_files)
          next(records) == _load_tables(m, g, unreadable, folder_name, file_base,
                                        existing_files, Tail(names),
                                        Put(cached_data, name, records))
          one(selected_blob) ==
              IF selected_blob = None THEN {LoadNone}
              ELSE LET content == read_file(m, g, unreadable, selected_blob)
                   IN  IF content = None THEN {LoadNone}
                       ELSE IF endswith(selected_blob, <<".csv">>)
                       THEN LET r == read_csv_records(content)
                            IN  IF r.raised THEN {LoadRaise(r.exc)} ELSE next(r.value)
                       ELSE LET payload == json_loads(content)
                            IN  IF payload.raised THEN {LoadNone}
                                ELSE IF payload.isList THEN next(payload.value)
                                ELSE next(<<>>)
      IN  UNION {one(b) : b \in selections}

\* FnGuideCrawler._load_from_gcs; existing_files is Some(mapping) or Absent
_load_from_gcs(m, g, env, folder_name, file_base, existing_files, legacy_folder) ==
    LET existing == IF existing_files.some THEN existing_files.v
                    ELSE _collect_existing_files(m, g, env.listFail,
                             {folder_name, _partition_alias(folder_name), legacy_folder})
        selectors == iterate(main_table_selectors)
    IN  IF selectors.raised THEN {LoadRaise(selectors.exc)}
        ELSE _load_tables(m, g, env.unreadable, folder_name, file_base, existing,
                          selectors.value \o finance_table_titles, <<>>)

\* the loop "for name, payload in serialized_payloads.items()" of upload_to_gcs:
\* [g |-> bucket afterwards, uploaded |-> names upload_file was called with]
RECURSIVE _upload_tables(_, _, _, _, _, _, _, _, _)
_upload_tables(m, g, uploadFail, folder_name, file_base, existing_files, overwrite, payloads, uploaded) ==
    IF payloads = <<>> THEN [g |-> g, uploaded |-> uploaded]
    ELSE
      LET name == Head(payloads)[1]
          payload == Head(payloads)[2]
          new_blob == folder_name \o file_base \o <<"_", name, ".csv">>
          selections == _resolve_existing_blob(
                            _expand_candidates(new_blob),
                            _legacy_candidate_blobs(name, file_base, existing_files),
                            existing_files)
          target_blob_name == lstrip(new_blob)
          up == upload_file(m, g, name \in uploadFail, payload, target_blob_name)
          added == {target_blob_name, <<"/">> \o target_blob_name}
          existing2 == IF up.ok
                       THEN [k \in (DOMAIN existing_files) \cup added |->
                               IF k = target_blob_name THEN target_blob_name
                               ELSE IF k \in DOMAIN existing_files THEN existing_files[k]
                               ELSE target_blob_name]
                       ELSE existing_files
      IN  IF ~overwrite /\ selections # {None}
          THEN _upload_tables(m, g, uploadFail, folder_name, file_base, existing_files,
                              overwrite, Tail(payloads), uploaded)
          ELSE _upload_tables(m, up.g, uploadFail, folder_name, file_base, existing2,
                              overwrite, Tail(payloads), uploaded \cup {target_blob_name})

\* FnGuideCrawler.upload_to_gcs; existing_files is Some(mapping) or Absent,
\* legacy_folder a folder or None.  existing is the mapping the call
\* resolved against.
upload_to_gcs(m, g, env, stock, serialized_payloads, folder_name, file_base, existing_files, overwrite, legacy_folder) ==
    LET legacy == IF legacy_folder = None
                  THEN _legacy_folder_from_current(folder_name, stock, None, None)
                  ELSE legacy_folder
        alias_folder == IF ~overwrite THEN _partition_alias(folder_name) ELSE None
        collect_legacy == IF ~overwrite THEN legacy ELSE None
        existing == IF existing_files.some THEN existing_files.v
                    ELSE _collect_existing_files(m, g, env.listFail,
                             {folder_name, alias_folder, collect_legacy})
        folder == ensure_folder(m, g, env.folderFail, folder_name)
        done == _upload_tables(m, folder.g, env.uploadFail, folder_name, file_base,
                               existing, overwrite, serialized_payloads, {})
    IN  [g |-> done.g, uploaded |-> done.uploaded, existing |-> existing]

----------------------------------------------------------------------------
(* FnGuideCrawler: construction, crawl and get_all_fundamentals *)

\* FnGuideCrawler.__init__: self.stock and the page URLs built from it
main_url(stock) == <<"https://comp.fnguide.com/SVO2/ASP/SVD_main.asp?pGB=1&gicode=A">> \o stock
finance_url(stock) == <<"https://comp.fnguide.com/SVO2/ASP/SVD_Finance.asp?pGB=1&gicode=A">> \o stock
FnGuideCrawler(stock) ==
    [stock |-> stock, main_url |-> main_url(stock), finance_url |-> finance_url(stock)]

\* FnGuideMain.parse(frames, stock=stock): the datasets, or the exception.
\* _translate is declared with the keyword stock_code and called with stock=.
parse(nframes, stock) ==
    LET selectors == iterate(main_table_selectors)
        indices == <<0, 1, 2, 3, 4, 6, 7, 8, 11, 12>>
    IN  IF selectors.raised THEN Raise(selectors.exc)
        ELSE IF indices[1] < nframes THEN Raise("TypeError")
        ELSE Return([i \in 1..Len(selectors.value) |-> <<selectors.value[i], <<>> >>])

\* FnGuideCrawler._get_snapshot
_get_snapshot(self, env) ==
    IF env.main = "http_error" THEN Raise("HTTPError")
    ELSE IF env.frames = 0 THEN Raise("ValueError")
    ELSE parse(env.frames, self.stock)

\* FnGuideCrawler._get_finance: one request, then one entry per title; a
\* title whose table is missing or fails to parse gets []
_get_finance(self, env) ==
    IF env.finance = "http_error" THEN Raise("HTTPError")
    ELSE Return([i \in 1..Len(finance_table_titles) |->
                    <<finance_table_titles[i], env.tables[finance_table_titles[i]]>>])

\* the statement of a table: a JSON string if the table is in data with at
\* least one record, else None
statement(data, title) ==
    IF title \in Keys(data) /\ Get(data, title) # <<>>
    THEN json_dumps(Get(data, title)) ELSE None

\* FnGuideCrawler._convert_to_new_schema
_convert_to_new_schema(self, cached_data) ==
    [ticker |-> self.stock, country |-> "KR",
     balance_sheet |-> statement(cached_data, "JaemuSangtaepyo"),
     income_statement |-> statement(cached_data, "PogwalSonikGyesanseo"),
     cash_flow |-> statement(cached_data, "HyeongeumHeureumpyo")]

\* step 5 of get_all_fundamentals: the result built from finance_data
_fresh_result(self, finance_data) ==
    [ticker |-> self.stock, country |-> "KR",
     balance_sheet |-> statement(finance_data, "JaemuSangtaepyo"),
     income_statement |-> statement(finance_data, "PogwalSonikGyesanseo"),
     cash_flow |-> statement(finance_data, "HyeongeumHeureumpyo")]

\* step 3 of get_all_fundamentals: csv_payloads
_csv_payloads(raw_data) ==
    [i \in 1..Len(raw_data) |->
        <<raw_data[i][1], IF raw_data[i][2] # <<>> THEN to_csv(raw_data[i][2]) ELSE <<>> >>]

NoResult == [ticker |-> None, country |-> "", balance_sheet |-> None,
             income_statement |-> None, cash_flow |-> None]

\* what one call did: how it ended, the pages it requested, the blobs it
\* called upload_file for, and the bucket afterwards
Raised(e, requested, g) ==
    [raised |-> TRUE, exc |-> e, result |-> NoResult, fromCache |-> FALSE,
     requested |-> requested, uploaded |-> {}, g |-> g]
Returned(result, fromCache, requested, uploaded, g) ==
    [raised |-> FALSE, exc |-> "", result |-> result, fromCache |-> fromCache,
     requested |-> requested, uploaded |-> uploaded, g |-> g]

\* get_all_fundamentals from its data collection step on: crawl, upload
\* (when there is a GCS manager), build the result
_crawl_and_store(self, m, g, env, folder_name, existing_files, overwrite, legacy_folder) ==
    LET snapshot_data == _get_snapshot(self, env)
        finance_data == _get_finance(self, env)
    IN  IF snapshot_data.raised
        THEN Raised(snapshot_data.exc, {self.main_url}, g)
        ELSE IF finance_data.raised
        THEN Raised(finance_data.exc, {self.main_url, self.finance_url}, g)
        ELSE LET raw_data == snapshot_data.value \o finance_data.value
                 up == IF m.isNone THEN [g |-> g, uploaded |-> {}]
                       ELSE upload_to_gcs(m, g, env, self.stock, _csv_payloads(raw_data),
                                          folder_name, self.stock, existing_files,
                                          overwrite, legacy_folder)
             IN  Returned(_fresh_result(self, finance_data.value), FALSE,
                          {self.main_url, self.finance_url}, up.uploaded, up.g)

\* FnGuideCrawler.get_all_fundamentals(stock, use_cache, overwrite): the set
\* of outcomes.  stock is Some(text) or Absent.
get_all_fundamentals(self0, stock, use_cache, overwrite, day, g, env) ==
    LET self == IF stock.some /\ stock.v # <<>> THEN FnGuideCrawler(stock.v) ELSE self0
        quarter == quarter_of(day.month)
        folder_name == folder_name_of(day.year, quarter)
        misspelled_folder == _partition_alias(folder_name)
        legacy_folder == _legacy_folder_from_current(folder_name, self.stock,
                             <<Str(day.year)>>, <<Str(quarter)>>)
        m == gcs_property(env)
        collected == _collect_existing_files(m, g, env.listFail,
                         {folder_name, misspelled_folder, legacy_folder})
        crawl(existing_files) ==
            _crawl_and_store(self, m, g, env, folder_name,
                IF ~existing_files.some /\ ~overwrite /\ ~m.isNone
                THEN Some(collected) ELSE existing_files,
                overwrite, legacy_folder)
    IN  IF use_cache /\ ~m.isNone
        THEN {IF cached_data.raised THEN Raised(cached_data.exc, {}, g)
              ELSE IF ~cached_data.isNone /\ ~overwrite
              THEN Returned(_convert_to_new_schema(self, cached_data.data), TRUE, {}, {}, g)
              ELSE crawl(Some(collected))
              : cached_data \in _load_from_gcs(m, g, env, folder_name, self.stock,
                                               Some(collected), legacy_folder)}
        ELSE {crawl(Absent)}

\* FnGuideCrawler.fundamentals: the alias of get_all_fundamentals
fundamentals(self0, stock, use_cache, overwrite, day, g, env) ==
    get_all_fundamentals(self0, stock, use_cache, overwrite, day, g, env)

\* fundamentals.py find_fnguide_data(stock, use_cache): overwrite is left
\* at the default of FnGuideCrawler.fundamentals, True
find_fnguide_data(stock, use_cache, day, g, env) ==
    fundamentals(FnGuideCrawler(stock), Absent, use_cache, TRUE, day, g, env)

----------------------------------------------------------------------------
(* utils/companydict.py *)

\* companydict.temp_dict, in order; an alias is a text
temp_dict ==
    << [company |-> << <<"SamsungJeonja">>, <<"SamJeon">>, <<"SEC">>, <<"SAMSUNG">>,
                       <<"samsung">>, <<"Samsung">>, <<"Samsung Electronics">>,
                       <<"005930">>, <<"005930", ".KS">>, <<"005930", ".ks">> >>,
        code |-> <<"005930">>, ticker |-> <<"005930", ".KS">>],
       [company |-> << <<"SK", "Hynix_ko">>, <<"sk", "Hynix_ko">>, <<"Hynix_ko">>,
                       <<"000660">>, <<"000660", ".KS">>, <<"000660", ".ks">> >>,
        code |-> <<"000660">>, ticker |-> <<"000660", ".KS">>],
       [company |-> << <<"HyundaiCha">>, <<"HyundaiJadongcha">>,
                       <<"005380">>, <<"005380", ".KS">>, <<"005380", ".ks">> >>,
        code |-> <<"005380">>, ticker |-> <<"005380", ".KS">>],
       [company |-> << <<"NAVER">>, <<"naver">>, <<"Naver">>, <<"Naver_ko">>,
                       <<"035420">>, <<"035420", ".KS">>, <<"035420", ".ks">> >>,
        code |-> <<"035420">>, ticker |-> <<"035420", ".KS">>],
       [company |-> << <<"Celltrion_ko">>,
                       <<"068270">>, <<"068270", ".KS">>, <<"068270", ".ks">> >>,
        code |-> <<"068270">>, ticker |-> <<"068270", ".KS">>],
       [company |-> << <<"AAPL">>, <<"Apple">>, <<"apple">>, <<"Apple Inc">>, <<"Apple_ko">> >>,
        code |-> <<"AAPL">>, ticker |-> <<"AAPL">>],
       [company |-> << <<"TSLA">>, <<"Tesla">>, <<"tesla">>, <<"Tesla Inc">>, <<"Tesla_ko">> >>,
        code |-> <<"TSLA">>, ticker |-> <<"TSLA">>],
       [company |-> << <<"GOOGL">>, <<"Google">>, <<"google">>, <<"Alphabet">>,
                       <<"alphabet">>, <<"Google_ko">> >>,
        code |-> <<"GOOGL">>, ticker |-> <<"GOOGL">>],
       [company |-> << <<"MSFT">>, <<"Microsoft">>, <<"microsoft">>, <<"Microsoft_ko">> >>,
        code |-> <<"MSFT">>, ticker |-> <<"MSFT">>],
       [company |-> << <<"PLTR">>, <<"Palantir">>, <<"palantir">>, <<"Palantir_ko">> >>,
        code |-> <<"PLTR">>, ticker |-> <<"PLTR">>] >>

\* "user_input in company_info['company']"
listed(user_input, company_info) ==
    \E i \in 1..Len(company_info.company) : company_info.company[i] = user_input

\* index of the first entry of temp_dict listing user_input, 0 if none
first_entry(user_input) ==
    LET hits == {i \in 1..Len(temp_dict) : listed(user_input, temp_dict[i])}
    IN  IF hits = {} THEN 0 ELSE CHOOSE i \in hits : \A j \in hits : i <= j

\* companydict.get_code
get_code(user_input) ==
    IF first_entry(user_input) = 0 THEN None ELSE temp_dict[first_entry(user_input)].code

\* get_ticker returning the entry's code
get_ticker_as_code(user_input) == get_code(user_input)

\* companydict.get_ticker
get_ticker(user_input) ==
    IF first_entry(user_input) = 0 THEN None ELSE temp_dict[first_entry(user_input)].ticker

\* companydict.get_company
get_company(user_input) ==
    IF first_entry(user_input) = 0 THEN None
    ELSE temp_dict[first_entry(user_input)].company[1]

----------------------------------------------------------------------------
(* The FnGuide state machines: a bucket seeded with cache files of one     *)
(* stock; SpecFn has the calls of the tool and of the crawler's fetch      *)
(* methods, SpecUp the direct calls of upload_to_gcs.                      *)

MaxPayload == 2

CachedStock == <<"005930">>

\* the forms of one company the tool description accepts
StockForms == {<<"005930">>, <<"005930", ".KS">>, <<"SamsungJeonja">>}

AllTables == _main_table_selectors \o finance_table_titles
Titles == {finance_table_titles[i] : i \in 1..Len(finance_table_titles)}
ProbeTables == {"market_conditions", "JaemuSangtaepyo"}

Placements == {"cur", "alias", "legacy_csv", "legacy_json", "legacy_slash_csv"}

\* the name of a cache file of CachedStock for table name at a placement
BlobAt(place, name, day) ==
    LET folder == folder_name_of(day.year, quarter_of(day.month))
        legacy == _legacy_folder_from_current(folder, CachedStock, None, None)
        file(ext) == CachedStock \o <<"_", name, ext>>
    IN  CASE place = "cur" -> folder \o file(".csv")
          [] place = "alias" -> _partition_alias(folder) \o file(".csv")
          [] place = "legacy_csv" -> lstrip(legacy) \o file(".csv")
          [] place = "legacy_json" -> lstrip(legacy) \o file(".json")
          [] place = "legacy_slash_csv" -> legacy \o file(".csv")

OldRows == <<"rows", "r_old">>
NewRows == <<"rows", "r_new">>
SeedContents == {OldRows, <<"rows">>, <<"garbage">>}

\* a seeded bucket: every table cached in the current partition, except
\* that table exc.table lies at the placements exc.places with content
\* exc.content
Seeded(day, exc) ==
    LET names == {BlobAt("cur", AllTables[i], day) :
                     i \in {j \in 1..Len(AllTables) : AllTables[j] # exc.table}}
                 \cup {BlobAt(p, exc.table, day) : p \in exc.places}
    IN  [n \in names |-> IF \E p \in exc.places : n = BlobAt(p, exc.table, day)
                         THEN exc.content ELSE OldRows]

EmptyBucket == [n \in {} |-> <<>>]

Exceptions(tables, contents) ==
    {[table |-> t, places |-> ps, content |-> c] :
        t \in tables, c \in contents,
        ps \in {q \in SUBSET Placements : Cardinality(q) <= 2}}

\* environments: everything works, or one thing fails
Healthy ==
    [clientOk |-> TRUE, listFail |-> FALSE, unreadable |-> {}, uploadFail |-> {},
     folderFail |-> FALSE, main |-> "ok", frames |-> 13, finance |-> "ok",
     tables |-> [t \in Titles |-> <<"r_new">>]]
ClientDown == [Healthy EXCEPT !.clientOk = FALSE]
ListFails == [Healthy EXCEPT !.listFail = TRUE]

CrawlEnvs ==
    {Healthy, ClientDown, ListFails,
     [Healthy EXCEPT !.main = "http_error"],
     [Healthy EXCEPT !.frames = 0],
     [Healthy EXCEPT !.finance = "http_error"],
     [Healthy EXCEPT !.tables = [t \in Titles |-> IF t = "JaemuSangtaepyo" THEN <<>>
                                                  ELSE <<"r_new">>]]}

LoadEnvs ==
    {Healthy, ClientDown, ListFails,
     [Healthy EXCEPT !.unreadable = {BlobAt("cur", "JaemuSangtaepyo", today)}]}

UploadEnvs ==
    {Healthy, ClientDown, ListFails,
     [Healthy EXCEPT !.folderFail = TRUE],
     [Healthy EXCEPT !.uploadFail = {"JaemuSangtaepyo"}]}

NoCall == [op |-> "none", stock |-> <<>>, use_cache |-> FALSE, overwrite |-> FALSE,
           raised |-> FALSE, exc |-> "", result |-> NoResult, fromCache |-> FALSE,
           isNone |-> FALSE, requested |-> {}, uploaded |-> {}, payloads |-> <<>>,
           existing |-> EmptyBucket, pre |-> EmptyBucket, env |-> Healthy]

InitFn ==
    /\ today \in [year : {2025}, month : {2, 11}]
    /\ gcs \in {EmptyBucket} \cup {Seeded(today, e) : e \in Exceptions(ProbeTables, SeedContents)}
    /\ bq = [exists |-> FALSE, rows |-> <<>>]
    /\ fetches = 0
    /\ last = NoCall

\* serialized_payloads of a direct upload_to_gcs call: up to MaxPayload
\* probe tables with fresh rows
RECURSIVE PayloadSeqs(_)
PayloadSeqs(n) ==
    IF n = 0 THEN {<<>>}
    ELSE LET shorter == PayloadSeqs(n - 1)
         IN  shorter \cup
             {Append(q, <<t, NewRows>>) : q \in {x \in shorter : Len(x) = n - 1},
                                           t \in ProbeTables}
Payloads == {q \in PayloadSeqs(MaxPayload) :
                q # <<>> /\ \A i, j \in 1..Len(q) : i # j => q[i][1] # q[j][1]}

Observed(op, stock, use_cache, overwrite, o, env) ==
    [op |-> op, stock |-> stock, use_cache |-> use_cache, overwrite |-> overwrite,
     raised |-> o.raised, exc |-> o.exc, result |-> o.result,
     fromCache |-> o.fromCache, isNone |-> FALSE, requested |-> o.requested,
     uploaded |-> o.uploaded, payloads |-> <<>>, existing |-> EmptyBucket,
     pre |-> gcs, env |-> env]

\* the MCP tool find_fnguide_data(stock, use_cache)
FindFnguideData ==
    \E stock \in StockForms, use_cache \in BOOLEAN, env \in CrawlEnvs :
      \E o \in find_fnguide_data(stock, use_cache, today, gcs, env) :
        /\ gcs' = o.g
        /\ last' = Observed("find_fnguide_data", stock, use_cache, TRUE, o, env)
        /\ UNCHANGED <<today, bq, fetches>>

\* FnGuideCrawler(CachedStock).get_all_fundamentals(use_cache=, overwrite=)
GetAllFundamentals ==
    \E use_cache \in BOOLEAN, overwrite \in BOOLEAN, env \in CrawlEnvs :
      \E o \in get_all_fundamentals(FnGuideCrawler(CachedStock), Absent, use_cache,
                                    overwrite, today, gcs, env) :
        /\ gcs' = o.g
        /\ last' = Observed("get_all_fundamentals", CachedStock, use_cache, overwrite, o, env)
        /\ UNCHANGED <<today, bq, fetches>>

\* FnGuideCrawler(CachedStock)._load_from_gcs(folder_name, file_base, None, legacy_folder)
LoadFromGcs ==
    \E env \in LoadEnvs :
      LET folder == folder_name_of(today.year, quarter_of(today.month))
          legacy == _legacy_folder_from_current(folder, CachedStock, None, None)
      IN  \E o \in _load_from_gcs(GCSManager(env.clientOk), gcs, env, folder,
                                  CachedStock, Absent, legacy) :
            /\ last' = [NoCall EXCEPT !.op = "_load_from_gcs", !.stock = CachedStock,
                                      !.use_cache = TRUE, !.raised = o.raised,
                                      !.exc = o.exc, !.isNone = o.isNone,
                                      !.result = IF o.raised \/ o.isNone THEN NoResult
                                                 ELSE _convert_to_new_schema(
                                                        FnGuideCrawler(CachedStock), o.data),
                                      !.fromCache = ~o.raised /\ ~o.isNone,
                                      !.pre = gcs, !.env = env]
            /\ UNCHANGED <<today, gcs, bq, fetches>>

NextFn == FindFnguideData \/ GetAllFundamentals \/ LoadFromGcs

SpecFn == InitFn /\ [][NextFn]_vars

InitUp ==
    /\ today \in [year : {2025}, month : {2, 11}]
    /\ gcs \in {EmptyBucket}
               \cup {Seeded(today, e) : e \in Exceptions({"JaemuSangtaepyo"}, {OldRows})}
    /\ bq = [exists |-> FALSE, rows |-> <<>>]
    /\ fetches = 0
    /\ last = NoCall

\* FnGuideCrawler(CachedStock).upload_to_gcs(payloads, folder_name=, file_base=,
\* overwrite=) with existing_files and legacy_folder left at None
UploadToGcs ==
    \E env \in UploadEnvs, payloads \in Payloads, overwrite \in BOOLEAN :
      LET folder == folder_name_of(today.year, quarter_of(today.month))
          up == upload_to_gcs(GCSManager(env.clientOk), gcs, env, CachedStock, payloads,
                              folder, CachedStock, Absent, overwrite, None)
      IN  /\ gcs' = up.g
          /\ last' = [NoCall EXCEPT !.op = "upload_to_gcs", !.stock = CachedStock,
                                    !.overwrite = overwrite, !.uploaded = up.uploaded,
                                    !.payloads = payloads, !.existing = up.existing,
                                    !.pre = gcs, !.env = env]
          /\ UNCHANGED <<today, bq, fetches>>

NextUp == UploadToGcs

SpecUp == InitUp /\ [][NextUp]_vars

----------------------------------------------------------------------------
(* utils/yahoofinance.py: Fundamentals.fundamentals and its GCS cache.     *)
(* A statement is one token (the to_json text of a frame); the result dict *)
(* is a record whose statement fields are <<token>> or None.               *)

GCS_CACHE_PREFIX == "yahoofinance_fundamentals_cache"

\* str.upper() on the identifiers used here
upper(text) ==
    [i \in 1..Len(text) |->
        CASE text[i] = "aapl" -> "AAPL"
          [] text[i] = "tsla" -> "TSLA"
          [] text[i] = ".ks" -> ".KS"
          [] OTHER -> text[i]]

\* text.isdigit() and len(text) == 6, for a text without .KS/.KQ in it
isdigit6(text) ==
    text \in {<<"005930">>, <<"000660">>, <<"005380">>, <<"035420">>, <<"068270">>}

\* json.dumps(result, ensure_ascii=False, indent=2) of a result dict
dumps_result(r) ==
    LET tok(st) == IF st = None THEN "null" ELSE st[1]
    IN  <<"dict", r.country, tok(r.balance_sheet), tok(r.income_statement),
          tok(r.cash_flow)>> \o r.ticker

\* the Python value json.loads yields: [raised, kind, dict, list]
NoDict == [ticker |-> <<>>, country |-> "", balance_sheet |-> None,
           income_statement |-> None, cash_flow |-> None]
PyDict(d) == [raised |-> FALSE, kind |-> "dict", dict |-> d, list |-> <<>>]
PyList(l) == [raised |-> FALSE, kind |-> "list", dict |-> NoDict, list |-> l]
PyNone == [raised |-> FALSE, kind |-> "none", dict |-> NoDict, list |-> <<>>]
PyRaise == [raised |-> TRUE, kind |-> "none", dict |-> NoDict, list |-> <<>>]

\* json.loads(cached_payload) of a cache blob
loads_payload(content) ==
    LET st(tok) == IF tok = "null" THEN None ELSE <<tok>>
    IN  IF content = <<>> THEN PyRaise
        ELSE IF Head(content) = "dict" /\ Len(content) >= 5
        THEN PyDict([ticker |-> SubSeq(content, 6, Len(content)), country |-> content[2],
                     balance_sheet |-> st(content[3]), income_statement |-> st(content[4]),
                     cash_flow |-> st(content[5])])
        ELSE IF Head(content) = "rows" THEN PyList(Tail(content))
        ELSE PyRaise

\* what one call did
YOutcome(raised, exc, value, fromCache, fetched, wrote, read, g) ==
    [raised |-> raised, exc |-> exc, value |-> value, fromCache |-> fromCache,
     fetched |-> fetched, wrote |-> wrote, read |-> read, g |-> g]

\* the statements part of Fundamentals.fundamentals: yfinance is asked for
\* the three statements, the result is uploaded to the cache blob
_fetch_and_cache(m, g, env, ticker_symbol, gcs_blob_name, read) ==
    LET info_country == IF env.info = "raises" THEN "Unknown" ELSE env.info
        korean == contains(ticker_symbol, <<".KS">>) \/ contains(ticker_symbol, <<".KQ">>)
                  \/ isdigit6(ticker_symbol)
        country == IF korean THEN "KR" ELSE info_country
        st(x) == IF x \in {"raises", "empty"} THEN None ELSE <<x>>
        result == [ticker |-> ticker_symbol, country |-> country,
                   balance_sheet |-> st(env.balance_sheet),
                   income_statement |-> st(env.income_stmt),
                   cash_flow |-> st(env.cashflow)]
        up == upload_file(m, g, env.uploadFail, dumps_result(result), gcs_blob_name)
    IN  YOutcome(FALSE, "", PyDict(result), FALSE, TRUE, TRUE, read, up.g)

\* Fundamentals.fundamentals consulting the cache whenever use_cache is set,
\* overwrite or not
yahoo_fundamentals_overwrite_unused(identifier, use_cache, overwrite, attribute, g, env) ==
    LET m == GCSManager(env.clientOk)
        found == get_ticker(identifier)
        ticker_symbol == IF found # None THEN found ELSE upper(identifier)
        gcs_blob_name == <<GCS_CACHE_PREFIX, "/">> \o ticker_symbol \o <<".json">>
        cached_payload == read_file(m, g, env.unreadable, gcs_blob_name)
        payload == loads_payload(cached_payload)
    IN  IF use_cache /\ ~attribute.some /\ identifier # <<>>
           /\ cached_payload # None /\ cached_payload # <<>> /\ ~payload.raised
        THEN YOutcome(FALSE, "", payload, TRUE, FALSE, FALSE, cached_payload, g)
        ELSE _fetch_and_cache(m, g, env, ticker_symbol, gcs_blob_name, None)

\* Fundamentals.fundamentals(stock/query, use_cache=, overwrite=,
\* attribute_name_str=); identifier is a text or <<>>, attribute is Absent or
\* Some("valid"/"invalid")
yahoo_fundamentals(identifier, use_cache, overwrite, attribute, g, env) ==
    LET m == GCSManager(env.clientOk)
        found == get_ticker(identifier)
        ticker_symbol == IF found # None THEN found ELSE upper(identifier)
        gcs_blob_name == <<GCS_CACHE_PREFIX, "/">> \o ticker_symbol \o <<".json">>
        cached_payload == read_file(m, g, env.unreadable, gcs_blob_name)
        payload == loads_payload(cached_payload)
    IN  IF identifier = <<>> THEN YOutcome(TRUE, "ValueError", PyNone, FALSE, FALSE, FALSE, None, g)
        ELSE IF attribute.some
        THEN IF attribute.v = "valid"
             THEN YOutcome(FALSE, "", PyList(<<env.balance_sheet>>), FALSE, TRUE, FALSE, None, g)
             ELSE YOutcome(TRUE, "ValueError", PyNone, FALSE, FALSE, FALSE, None, g)
        ELSE IF use_cache /\ ~overwrite
        THEN IF cached_payload # None /\ cached_payload # <<>> /\ ~payload.raised
             THEN YOutcome(FALSE, "", payload, TRUE, FALSE, FALSE, cached_payload, g)
             ELSE _fetch_and_cache(m, g, env, ticker_symbol, gcs_blob_name, cached_payload)
        ELSE _fetch_and_cache(m, g, env, ticker_symbol, gcs_blob_name, None)

\* get_yahoofinance_fundamentals passing overwrite=True, as find_fnguide_data
\* in effect does
get_yahoofinance_fundamentals_overwrite(query, use_cache, g, env) ==
    yahoo_fundamentals(query, use_cache, TRUE, Absent, g, env)

\* fundamentals.py get_yahoofinance_fundamentals(query, use_cache)
get_yahoofinance_fundamentals(query, use_cache, g, env) ==
    yahoo_fundamentals(query, use_cache, FALSE, Absent, g, env)

\* fundamentals.py find_yahoofinance_data(query, attribute)
find_yahoofinance_data(query, attribute, g, env) ==
    yahoo_fundamentals(query, TRUE, FALSE, Some(attribute), g, env)

----------------------------------------------------------------------------
(* The Yahoo state machine: the cache blobs of two tickers and the calls   *)
(* of Fundamentals.fundamentals and the two tools.                         *)

MaxFetches == 2

YIdentifiers == {<<"AAPL">>, <<"apple">>, <<"tsla">>}
YTickers == {<<"AAPL">>, <<"TSLA">>}
YSeedTicker == <<"AAPL">>
YBlob(t) == <<GCS_CACHE_PREFIX, "/">> \o t \o <<".json">>

\* what a cache blob may hold before the first call: a result cached by an
\* earlier run, a JSON list, text that is not JSON, the empty text
YSeeds(t) == {<<"dict", "US", "bs0", "is0", "cf0">> \o t, <<"rows", "x">>,
              <<"garbage">>, <<>>}

YHealthy ==
    [clientOk |-> TRUE, unreadable |-> {}, uploadFail |-> FALSE, info |-> "US",
     balance_sheet |-> "bs1", income_stmt |-> "is1", cashflow |-> "cf1"]
YEnvs ==
    {YHealthy,
     [YHealthy EXCEPT !.balance_sheet = "bs2", !.income_stmt = "empty"],
     [YHealthy EXCEPT !.info = "raises", !.cashflow = "raises"],
     [YHealthy EXCEPT !.clientOk = FALSE],
     [YHealthy EXCEPT !.unreadable = {YBlob(t) : t \in YTickers}],
     [YHealthy EXCEPT !.uploadFail = TRUE]}

YNoCall == [op |-> "none", identifier |-> <<>>, ticker |-> <<>>, use_cache |-> FALSE,
            overwrite |-> FALSE, raised |-> FALSE, exc |-> "", value |-> PyNone,
            fromCache |-> FALSE, fetched |-> FALSE, wrote |-> FALSE, read |-> None,
            pre |-> EmptyBucket, env |-> YHealthy]

InitYahoo ==
    /\ today = [year |-> 2025, month |-> 11]
    /\ \E present \in SUBSET {YSeedTicker} :
         gcs \in [{YBlob(t) : t \in present} -> YSeeds(YSeedTicker)]
    /\ bq = [exists |-> FALSE, rows |-> <<>>]
    /\ fetches = 0
    /\ last = YNoCall

YTickerOf(identifier) ==
    IF get_ticker(identifier) # None THEN get_ticker(identifier) ELSE upper(identifier)

YObserved(op, identifier, use_cache, overwrite, o, env) ==
    [op |-> op, identifier |-> identifier, ticker |-> YTickerOf(identifier),
     use_cache |-> use_cache, overwrite |-> overwrite, raised |-> o.raised,
     exc |-> o.exc, value |-> o.value, fromCache |-> o.fromCache,
     fetched |-> o.fetched, wrote |-> o.wrote, read |-> o.read, pre |-> gcs,
     env |-> env]

YStep(op, identifier, use_cache, overwrite, o, env) ==
    LET t == YTickerOf(identifier)
    IN  /\ o.fetched => fetches < MaxFetches
        /\ gcs' = o.g
        /\ fetches' = IF o.fetched THEN fetches + 1 ELSE fetches
        /\ last' = YObserved(op, identifier, use_cache, overwrite, o, env)
        /\ UNCHANGED <<today, bq>>

\* Fundamentals().fundamentals(stock, use_cache=, overwrite=)
YahooFundamentals ==
    \E identifier \in YIdentifiers, use_cache \in BOOLEAN, overwrite \in BOOLEAN,
       env \in YEnvs :
      YStep("fundamentals", identifier, use_cache, overwrite,
            yahoo_fundamentals(identifier, use_cache, overwrite, Absent, gcs, env), env)

\* the MCP tool get_yahoofinance_fundamentals(query, use_cache)
GetYahoofinanceFundamentals ==
    \E query \in YIdentifiers, use_cache \in BOOLEAN, env \in YEnvs :
      YStep("get_yahoofinance_fundamentals", query, use_cache, FALSE,
            get_yahoofinance_fundamentals(query, use_cache, gcs, env), env)

\* the MCP tool find_yahoofinance_data(query, attribute)
FindYahoofinanceData ==
    \E query \in YIdentifiers, attribute \in {"valid", "invalid"}, env \in YEnvs :
      YStep("find_yahoofinance_data", query, TRUE, FALSE,
            find_yahoofinance_data(query, attribute, gcs, env), env)

NextYahoo == YahooFundamentals \/ GetYahoofinanceFundamentals \/ FindYahoofinanceData

SpecYahoo == InitYahoo /\ [][NextYahoo]_vars

----------------------------------------------------------------------------
(* BQManager.load_dataframe.  A table is [exists, rows]; a row is a record *)
(* with the columns k and v; a DataFrame is a sequence of rows.            *)

MaxTableRows == 3
MaxDfRows == 2

BQManager(clientOk) == [bq_client |-> IF clientOk THEN "client" ELSE "None"]

\* tuple(row.values()) of the selected key columns
KeyTuple(row, cols) == [i \in 1..Len(cols) |-> row[cols[i]]]

\* df[mask]: the rows of df at which the boolean mask holds, in order
SelectRows(df, mask) ==
    LET RECURSIVE go(_)
        go(i) == IF i > Len(df) THEN <<>>
                 ELSE (IF mask[i] THEN <<df[i]>> ELSE <<>>) \o go(i + 1)
    IN  go(1)

BQOutcome(raised, exc, returned, loaded, rows, table) ==
    [raised |-> raised, exc |-> exc, returned |-> returned, loaded |-> loaded,
     rows |-> rows, table |-> table]

\* lines 377-399: the load job
_load_job(table, df, if_exists, env) ==
    IF env.loadFail
    THEN BQOutcome(FALSE, "", FALSE, FALSE, <<>>, table)
    ELSE BQOutcome(FALSE, "", TRUE, TRUE, df,
                   [exists |-> TRUE,
                    rows |-> IF if_exists = "replace" THEN df ELSE table.rows \o df])

\* load_dataframe with the deduplication block left out
load_dataframe_nodedup(self, table, df, if_exists, deduplicate_on, env) ==
    IF self.bq_client = "None"
    THEN BQOutcome(FALSE, "", FALSE, FALSE, <<>>, table)
    ELSE IF env.getTable = "error"
    THEN BQOutcome(TRUE, "GoogleAPIError", FALSE, FALSE, <<>>, table)
    ELSE _load_job(table, df, if_exists, env)

\* BQManager.load_dataframe
load_dataframe(self, table, df, if_exists, deduplicate_on, env) ==
    IF self.bq_client = "None"
    THEN BQOutcome(FALSE, "", FALSE, FALSE, <<>>, table)
    ELSE IF env.getTable = "error"
    THEN BQOutcome(TRUE, "GoogleAPIError", FALSE, FALSE, <<>>, table)
    ELSE
    LET table_exists == table.exists
    IN  IF table_exists /\ deduplicate_on # <<>> /\ if_exists = "append"
        THEN IF df = <<>>
             THEN BQOutcome(FALSE, "", TRUE, FALSE, <<>>, table)
             ELSE IF env.queryFail
             THEN _load_job(table, df, if_exists, env)
             ELSE
             LET existing_data_keys ==
                     {KeyTuple(table.rows[i], deduplicate_on) : i \in 1..Len(table.rows)}
                 df_keys == [i \in 1..Len(df) |-> KeyTuple(df[i], deduplicate_on)]
                 fresh_data_mask == [i \in 1..Len(df) |-> df_keys[i] \notin existing_data_keys]
                 df_to_load == SelectRows(df, fresh_data_mask)
             IN  IF df_to_load = <<>>
                 THEN BQOutcome(FALSE, "", TRUE, FALSE, <<>>, table)
                 ELSE _load_job(table, df_to_load, if_exists, env)
        ELSE _load_job(table, df, if_exists, env)

BQRows == {[k |-> 1, v |-> 1], [k |-> 1, v |-> 2], [k |-> 2, v |-> 1]}
BQFrames == UNION {[1..n -> BQRows] : n \in 0..MaxDfRows}
BQKeys == {<<>>, <<"k">>, <<"k", "v">>}

BQHealthy == [clientOk |-> TRUE, getTable |-> "ok", queryFail |-> FALSE, loadFail |-> FALSE]
BQEnvs ==
    {BQHealthy,
     [BQHealthy EXCEPT !.clientOk = FALSE],
     [BQHealthy EXCEPT !.getTable = "error"],
     [BQHealthy EXCEPT !.queryFail = TRUE],
     [BQHealthy EXCEPT !.loadFail = TRUE]}

BQNoCall == [op |-> "none", df |-> <<>>, if_exists |-> "append", deduplicate_on |-> <<>>,
             env |-> BQHealthy, raised |-> FALSE, exc |-> "", returned |-> FALSE,
             loaded |-> FALSE, rows |-> <<>>, pre |-> [exists |-> FALSE, rows |-> <<>>]]

InitBQ ==
    /\ today = [year |-> 2025, month |-> 11]
    /\ gcs = EmptyBucket
    /\ bq = [exists |-> FALSE, rows |-> <<>>]
    /\ fetches = 0
    /\ last = BQNoCall

LoadDataframe ==
    \E df \in BQFrames, if_exists \in {"append", "replace"},
       deduplicate_on \in BQKeys, env \in BQEnvs :
      LET o == load_dataframe(BQManager(env.clientOk), bq, df, if_exists,
                              deduplicate_on, env)
      IN  /\ Len(bq.rows) + Len(df) <= MaxTableRows
          /\ bq' = o.table
          /\ last' = [op |-> "load_dataframe", df |-> df, if_exists |-> if_exists,
                      deduplicate_on |-> deduplicate_on, env |-> env,
                      raised |-> o.raised, exc |-> o.exc, returned |-> o.returned,
                      loaded |-> o.loaded, rows |-> o.rows, pre |-> bq]
          /\ UNCHANGED <<today, gcs, fetches>>

NextBQ == LoadDataframe

SpecBQ == InitBQ /\ [][NextBQ]_vars

----------------------------------------------------------------------------
(* Properties of the FnGuide cache (checked under SpecFn and SpecUp)       *)

\* every table of CachedStock has a well-formed file in the current
\* partition of bucket g
CacheComplete(g) ==
    \A i \in 1..Len(AllTables) :
        /\ BlobAt("cur", AllTables[i], today) \in DOMAIN g
        /\ g[BlobAt("cur", AllTables[i], today)] = OldRows

\* the result dict built from a cache whose three statements hold r_old
CachedResult ==
    [ticker |-> CachedStock, country |-> "KR",
     balance_sheet |-> <<"json", "r_old">>,
     income_statement |-> <<"json", "r_old">>,
     cash_flow |-> <<"json", "r_old">>]

\* C1: a call of find_fnguide_data with use_cache=True, made with GCS
\* working and every table of the stock cached in the current partition,
\* returns the statements read from the cache, requests no FnGuide page and
\* uploads nothing.
C1_CacheFirst ==
    (/\ last.op = "find_fnguide_data"
     /\ last.use_cache
     /\ last.stock = CachedStock
     /\ last.env = Healthy
     /\ CacheComplete(last.pre))
    => (/\ ~last.raised
        /\ last.fromCache
        /\ last.result = CachedResult
        /\ last.requested = {}
        /\ last.uploaded = {}
        /\ gcs = last.pre)

\* C4: whichever accepted form of the company the caller passes, the pages
\* find_fnguide_data requests are the pages of the company's trading code,
\* and a returned ticker is that code.
C4_SameTradingCode ==
    last.op = "find_fnguide_data"
    => (/\ last.requested \subseteq {main_url(get_code(last.stock)),
                                     finance_url(get_code(last.stock))}
        /\ ~last.raised => last.result.ticker = get_code(last.stock))

\* C5: a failing snapshot or finance page request inside
\* get_all_fundamentals (or the tool calling it) is caught and never
\* reaches the caller as an HTTP error.
C5_NoPropagation ==
    last.op \in {"find_fnguide_data", "get_all_fundamentals"}
    => ~(last.raised /\ last.exc = "HTTPError")

\* table name has a file of CachedStock in bucket g at one of the places
HasFile(g, name, places) == \E p \in places : BlobAt(p, name, today) \in DOMAIN g

\* C7: with every table cached in the current partition or the legacy
\* folder, one of them in the legacy folder only, _load_from_gcs loads the
\* tables (the legacy one from the legacy folder) and returns them.
C7_LegacyLoaded ==
    (/\ last.op = "_load_from_gcs"
     /\ last.env = Healthy
     /\ \A n \in DOMAIN last.pre : last.pre[n] = OldRows
     /\ \A i \in 1..Len(AllTables) :
           HasFile(last.pre, AllTables[i], {"cur", "legacy_csv", "legacy_json"})
     /\ \E i \in 1..Len(AllTables) : ~HasFile(last.pre, AllTables[i], {"cur"}))
    => (~last.raised /\ ~last.isNone /\ last.result = CachedResult)

\* C8: with overwrite=False, a table whose file the call found under the
\* misspelled quater= folder is not uploaded again.
C8_AliasPreventsUpload ==
    (last.op = "upload_to_gcs" /\ ~last.overwrite)
    => \A i \in 1..Len(last.payloads) :
          BlobAt("alias", last.payloads[i][1], today) \in DOMAIN last.existing
          => BlobAt("cur", last.payloads[i][1], today) \notin last.uploaded

\* table name is found among the existing files: its file of the current
\* partition or a legacy file of it is a key of the mapping
FoundAmong(existing, name) ==
    \E p \in {"cur", "legacy_csv", "legacy_json", "legacy_slash_csv"} :
        BlobAt(p, name, today) \in DOMAIN existing

C10_MissingGivesNone ==
    (/\ last.op = "_load_from_gcs"
     /\ \E i \in 1..Len(AllTables) : ~HasFile(last.pre, AllTables[i], Placements))
    => (~last.raised /\ last.isNone)

----------------------------------------------------------------------------
(* Properties of the Yahoo cache (checked under SpecYahoo)                 *)

\* the cache blob of the call recorded in l is readable in bucket g and its
\* text parses as JSON
YCacheUsable(l, g) ==
    /\ l.env.clientOk
    /\ YBlob(l.ticker) \in DOMAIN g
    /\ YBlob(l.ticker) \notin l.env.unreadable
    /\ g[YBlob(l.ticker)] # <<>>
    /\ ~loads_payload(g[YBlob(l.ticker)]).raised

----------------------------------------------------------------------------
(* Properties of BQManager.load_dataframe (checked under SpecBQ)           *)

\* the K-tuples present in the table when the call recorded in l was made
BQPresent(l) ==
    {KeyTuple(l.pre.rows[i], l.deduplicate_on) : i \in 1..Len(l.pre.rows)}

\* how many rows of l.df have a K-tuple absent from the table
BQFreshCount(l) ==
    Cardinality({i \in 1..Len(l.df) :
                    KeyTuple(l.df[i], l.deduplicate_on) \notin BQPresent(l)})

\* a call with if_exists="append" and deduplicate_on=K on an existing table,
\* made with a BigQuery client whose table lookup succeeds
BQDedupCall(l) ==
    /\ l.op = "load_dataframe"
    /\ l.if_exists = "append"
    /\ l.deduplicate_on # <<>>
    /\ l.pre.exists
    /\ l.env.clientOk
    /\ l.env.getTable = "ok"

NoPresentKeyLoaded(l) ==
    \A i \in 1..Len(l.rows) : KeyTuple(l.rows[i], l.deduplicate_on) \notin BQPresent(l)

\* C6 as stated: an append with deduplicate_on=K never loads a row whose
\* K-tuple is present in the table, and returns True without loading when no
\* row of df remains.
C6_NeverAppendsPresentKey ==
    BQDedupCall(last)
    => (/\ NoPresentKeyLoaded(last)
        /\ BQFreshCount(last) = 0 => (last.returned /\ ~last.loaded))

\* C6 as amended: if the key query succeeds, exactly the rows of df with an
\* absent K-tuple are appended (True without loading when none remain); if
\* the key query raises, the whole of a non-empty df is appended.
C6_DedupUnlessQueryFails ==
    BQDedupCall(last)
    => (/\ ~last.raised
        /\ bq.rows = last.pre.rows \o last.rows
        /\ IF last.env.queryFail /\ last.df # <<>>
           THEN /\ last.env.loadFail => (~last.loaded /\ ~last.returned)
                /\ ~last.env.loadFail => (last.loaded /\ last.returned /\ last.rows = last.df)
           ELSE /\ NoPresentKeyLoaded(last)
                /\ BQFreshCount(last) = 0 => (last.returned /\ ~last.loaded)
                /\ (BQFreshCount(last) > 0 /\ ~last.env.loadFail)
                   => (last.loaded /\ last.returned /\ Len(last.rows) = BQFreshCount(last))
                /\ (BQFreshCount(last) > 0 /\ last.env.loadFail)
                   => (~last.loaded /\ ~last.returned))

\* C6 witness: a deduplicating append dropped a row with a present key and
\* loaded a fresh one
C6_Witness ==
    /\ BQDedupCall(last)
    /\ last.env = BQHealthy
    /\ last.loaded
    /\ Len(last.rows) = 1
    /\ Len(last.df) = 2
    /\ KeyTuple(last.df[1], last.deduplicate_on) \in BQPresent(last)

----------------------------------------------------------------------------
(* utils/companydict.py as a state machine: the three lookups applied to   *)
(* every listed alias and to some texts that are not listed.               *)

DictAliases ==
    UNION {{temp_dict[i].company[j] : j \in 1..Len(temp_dict[i].company)} :
              i \in 1..Len(temp_dict)}

\* texts that differ from a listed alias in case, in a trailing blank, or
\* altogether
DictStrangers ==
    {<<"aapl">>, <<"SAMSUNG ELECTRONICS">>, <<"005930", ".Ks">>, <<"005930", " ">>,
     <<"samsung", " ">>, <<"NVDA">>, <<"Nvidia">>, <<>>, <<"sec">>, <<".KS">>}

DictInputs == DictAliases \cup DictStrangers

DictNoCall == [op |-> "none", input |-> <<>>, result |-> None]

InitDict ==
    /\ today = [year |-> 2025, month |-> 11]
    /\ gcs = EmptyBucket
    /\ bq = [exists |-> FALSE, rows |-> <<>>]
    /\ fetches = 0
    /\ last = DictNoCall

GetCode ==
    \E user_input \in DictInputs :
        /\ last' = [op |-> "get_code", input |-> user_input, result |-> get_code(user_input)]
        /\ UNCHANGED <<today, gcs, bq, fetches>>

GetTicker ==
    \E user_input \in DictInputs :
        /\ last' = [op |-> "get_ticker", input |-> user_input,
                    result |-> get_ticker(user_input)]
        /\ UNCHANGED <<today, gcs, bq, fetches>>

GetCompany ==
    \E user_input \in DictInputs :
        /\ last' = [op |-> "get_company", input |-> user_input,
                    result |-> get_company(user_input)]
        /\ UNCHANGED <<today, gcs, bq, fetches>>

NextDict == GetCode \/ GetTicker \/ GetCompany

SpecDict == InitDict /\ [][NextDict]_vars

\* the entries of temp_dict that list alias a
DictOwners(a) ==
    {i \in 1..Len(temp_dict) :
        \E j \in 1..Len(temp_dict[i].company) : temp_dict[i].company[j] = a}

\* C11: a lookup of a text listed under a company returns that company's
\* code, ticker or first-listed name, and the company is the only one
\* listing the text; a lookup of a text that is not listed returns None.
C11_AliasLookup ==
    last.op \in {"get_code", "get_ticker", "get_company"}
    => IF DictOwners(last.input) = {}
       THEN last.result = None
       ELSE /\ Cardinality(DictOwners(last.input)) = 1
            /\ \A i \in DictOwners(last.input) :
                  last.result = CASE last.op = "get_code" -> temp_dict[i].code
                                  [] last.op = "get_ticker" -> temp_dict[i].ticker
                                  [] last.op = "get_company" -> temp_dict[i].company[1]

\* C11 witness: the ticker of a Korean alias, which differs from its code
C11_Witness ==
    /\ last.op = "get_ticker"
    /\ last.input = <<"SamJeon">>
    /\ last.result = <<"005930", ".KS">>

----------------------------------------------------------------------------
(* GCSManager as a state machine: the four operations called directly on   *)
(* a manager whose client did or did not come up.                          *)

GcsNames == {<<"a">>, <<"/", "a">>, <<"d", "/">>, <<"d">>, <<>>}
GcsTexts == {<<"x">>, <<"y">>}

GcsNoCall == [op |-> "none", clientOk |-> TRUE, fail |-> FALSE, name |-> <<>>,
              listed |-> {}, ok |-> FALSE, content |-> None, pre |-> EmptyBucket]

InitGcs ==
    /\ today = [year |-> 2025, month |-> 11]
    /\ gcs \in {EmptyBucket, [n \in {<<"a">>} |-> <<"x">>]}
    /\ bq = [exists |-> FALSE, rows |-> <<>>]
    /\ fetches = 0
    /\ last = GcsNoCall

GcsCall(op, clientOk, fail, name) ==
    [GcsNoCall EXCEPT !.op = op, !.clientOk = clientOk, !.fail = fail, !.name = name,
                      !.pre = gcs]

ListFiles ==
    \E clientOk \in BOOLEAN, fail \in BOOLEAN, folder_name \in GcsNames :
        /\ last' = [GcsCall("list_files", clientOk, fail, folder_name) EXCEPT
                       !.listed = list_files(GCSManager(clientOk), gcs, fail, folder_name)]
        /\ UNCHANGED <<today, gcs, bq, fetches>>

UploadFile ==
    \E clientOk \in BOOLEAN, fail \in BOOLEAN, name \in GcsNames \ {<<>>},
       source_file \in GcsTexts :
        LET up == upload_file(GCSManager(clientOk), gcs, fail, source_file, name)
        IN  /\ gcs' = up.g
            /\ last' = [GcsCall("upload_file", clientOk, fail, name) EXCEPT !.ok = up.ok]
            /\ UNCHANGED <<today, bq, fetches>>

ReadFile ==
    \E clientOk \in BOOLEAN, fail \in BOOLEAN, blob_name \in GcsNames \ {<<>>} :
        /\ last' = [GcsCall("read_file", clientOk, fail, blob_name) EXCEPT
                       !.content = read_file(GCSManager(clientOk), gcs,
                                             IF fail THEN DOMAIN gcs ELSE {}, blob_name)]
        /\ UNCHANGED <<today, gcs, bq, fetches>>

EnsureFolder ==
    \E clientOk \in BOOLEAN, fail \in BOOLEAN, folder_name \in GcsNames :
        LET made == ensure_folder(GCSManager(clientOk), gcs, fail, folder_name)
        IN  /\ gcs' = made.g
            /\ last' = [GcsCall("ensure_folder", clientOk, fail, folder_name) EXCEPT
                           !.ok = made.ok]
            /\ UNCHANGED <<today, bq, fetches>>

NextGcs == ListFiles \/ UploadFile \/ ReadFile \/ EnsureFolder

SpecGcs == InitGcs /\ [][NextGcs]_vars

\* C12: an operation on a manager whose storage client did not come up
\* returns its sentinel ([] for list_files, False for upload_file, None for
\* read_file, False for ensure_folder of a non-empty name) and leaves the
\* bucket as it was.
C12_UnavailableSentinels ==
    (last.op \in {"list_files", "upload_file", "read_file", "ensure_folder"}
     /\ ~last.clientOk)
    => (/\ gcs = last.pre
        /\ last.op = "list_files" => last.listed = {}
        /\ last.op = "upload_file" => ~last.ok
        /\ last.op = "read_file" => last.content = None
        /\ (last.op = "ensure_folder" /\ last.name # <<>>) => ~last.ok)

\* C12 witness: without a client, ensure_folder of a folder that has no
\* placeholder answered False and created nothing
C12_Witness ==
    /\ last.op = "ensure_folder"
    /\ ~last.clientOk
    /\ ~last.fail
    /\ last.name = <<"d">>
    /\ ~last.ok
    /\ <<"d", "/">> \notin DOMAIN gcs
    /\ <<"a">> \in DOMAIN gcs

\* the statement field built from what yfinance answered
YStatement(x) == IF x \in {"raises", "empty"} THEN None ELSE <<x>>

\* a call of Fundamentals.fundamentals for the three statements with
\* use_cache=False or overwrite=True
YBypassCall(l) == l.op = "fundamentals" /\ (~l.use_cache \/ l.overwrite)

\* what the call recorded in l fetched from yfinance
YFresh(l) ==
    /\ ~l.raised
    /\ ~l.fromCache
    /\ l.read = None
    /\ l.fetched
    /\ l.value.kind = "dict"
    /\ l.value.dict.ticker = l.ticker
    /\ l.value.dict.balance_sheet = YStatement(l.env.balance_sheet)
    /\ l.value.dict.income_statement = YStatement(l.env.income_stmt)
    /\ l.value.dict.cash_flow = YStatement(l.env.cashflow)

\* C13 as stated: a call with use_cache=False or overwrite=True reads no
\* cache blob, fetches the statements from yfinance, and afterwards the
\* ticker's cache blob holds the fresh result.
C13_FreshResultCached ==
    YBypassCall(last)
    => (/\ YFresh(last)
        /\ YBlob(last.ticker) \in DOMAIN gcs
        /\ gcs[YBlob(last.ticker)] = dumps_result(last.value.dict))

\* C13 as amended: such a call reads no cache blob, fetches the statements
\* and returns them, and calls upload_file with the fresh result; the blob
\* holds the fresh result if the upload succeeds, and the bucket is as
\* before if the client is unavailable or the upload raises.
C13_FreshResultUploaded ==
    YBypassCall(last)
    => (/\ YFresh(last)
        /\ last.wrote
        /\ IF last.env.clientOk /\ ~last.env.uploadFail
           THEN gcs = Written(last.pre, YBlob(last.ticker), dumps_result(last.value.dict))
           ELSE gcs = last.pre)

\* C13 witness: overwrite=True with use_cache=True replaced a cached result
\* of AAPL by a different fresh one
C13_Witness ==
    /\ last.op = "fundamentals"
    /\ last.use_cache
    /\ last.overwrite
    /\ YBlob(<<"AAPL">>) \in DOMAIN last.pre
    /\ ~loads_payload(last.pre[YBlob(<<"AAPL">>)]).raised
    /\ last.ticker = <<"AAPL">>
    /\ last.fetched
    /\ gcs[YBlob(<<"AAPL">>)] # last.pre[YBlob(<<"AAPL">>)]
    /\ gcs[YBlob(<<"AAPL">>)] = dumps_result(last.value.dict)

----------------------------------------------------------------------------
(* utils/gemini.py: analysis(stock, prompt).                               *)
(* A JSON text is a token sequence: an object is "{", then key and value   *)
(* tokens in turn, then "}"; a list is "[" ... "]"; "null" is null.  Any   *)
(* other text (cut off, wrapped in a code fence, prose, empty) is not JSON.*)
(* env of one call:                                                        *)
(*   api_key  os.getenv("GEMINI_API_KEY"): "key", "" or "unset"            *)
(*   api      generate_content: "ok" or "raises"                           *)
(*   text     response.text: a text, None, or <<"raises">> when reading    *)
(*            the property raises                                          *)

\* json.loads(text): raises TypeError for None, JSONDecodeError for a text
\* that is not JSON
gemini_loads(text) ==
    IF text = None THEN Raise("TypeError")
    ELSE IF text = <<"null">> THEN Return(text)
    ELSE IF Len(text) >= 2 /\ text[1] = "{" /\ text[Len(text)] = "}"
            /\ Len(text) % 2 = 0
            /\ \A i \in 2..(Len(text) - 1) : text[i] \notin {"{", "}", "fence"}
    THEN Return(text)
    ELSE IF Len(text) >= 2 /\ text[1] = "[" /\ text[Len(text)] = "]"
    THEN Return(text)
    ELSE Raise("JSONDecodeError")

\* json.dumps(error_response, ensure_ascii=False) for the two messages
error_response(summary) ==
    <<"{", "summary", summary, "key_issues", "-", "risk_factors", "-",
      "investment_implication", "analysis_error", "}">>

\* analysis returning response.text without validating it
analysis_unvalidated(stock, prompt, env) ==
    IF env.api_key \in {"", "unset"} THEN Return(error_response("analysis_failed"))
    ELSE IF env.api = "raises" THEN Return(error_response("analysis_failed"))
    ELSE IF env.text = <<"raises">> THEN Return(error_response("analysis_failed"))
    ELSE Return(env.text)

\* gemini.analysis
analysis(stock, prompt, env) ==
    IF env.api_key \in {"", "unset"} THEN Return(error_response("analysis_failed"))
    ELSE IF env.api = "raises" THEN Return(error_response("analysis_failed"))
    ELSE IF env.text = <<"raises">> THEN Return(error_response("analysis_failed"))
    ELSE IF gemini_loads(env.text).raised THEN Return(error_response("invalid_format"))
    ELSE Return(env.text)

GeminiTexts ==
    {<<"{", "sentiment", "positive", "summary", "s", "}">>, <<"{", "}">>, <<"[", "]">>,
     <<"null">>, <<"{", "summary", "s">>, <<"fence", "{", "summary", "s", "}", "fence">>,
     <<"Sorry">>, <<>>, None, <<"raises">>}

GeminiEnvs == [api_key : {"key", "", "unset"}, api : {"ok", "raises"}, text : GeminiTexts]

GeminiNoCall == [op |-> "none", stock |-> <<>>, prompt |-> "", raised |-> FALSE,
                 result |-> <<>>, env |-> [api_key |-> "key", api |-> "ok", text |-> None]]

InitGemini ==
    /\ today = [year |-> 2025, month |-> 11]
    /\ gcs = EmptyBucket
    /\ bq = [exists |-> FALSE, rows |-> <<>>]
    /\ fetches = 0
    /\ last = GeminiNoCall

Analysis ==
    \E stock \in {<<"005930">>, <<"AAPL">>}, prompt \in {"NEWS_PROMPT", "MARKET_PROMPT"},
       env \in GeminiEnvs :
        LET r == analysis(stock, prompt, env)
        IN  /\ last' = [op |-> "analysis", stock |-> stock, prompt |-> prompt,
                        raised |-> r.raised,
                        result |-> IF r.raised THEN <<>> ELSE r.value, env |-> env]
            /\ UNCHANGED <<today, gcs, bq, fetches>>

NextGemini == Analysis

SpecGemini == InitGemini /\ [][NextGemini]_vars

\* the keys of a JSON object text
ObjectKeys(text) == {text[i] : i \in {j \in 2..(Len(text) - 1) : j % 2 = 0}}

\* the call recorded in l got a model text and that text is valid JSON
GeminiAnswered(l) ==
    /\ l.env.api_key = "key"
    /\ l.env.api = "ok"
    /\ l.env.text # <<"raises">>
    /\ ~gemini_loads(l.env.text).raised

\* C14: analysis does not raise and returns a text that parses as JSON: the
\* model's text when that is valid JSON, otherwise an object with exactly
\* the keys summary, key_issues, risk_factors, investment_implication.
C14_AlwaysJson ==
    last.op = "analysis"
    => (/\ ~last.raised
        /\ ~gemini_loads(last.result).raised
        /\ IF GeminiAnswered(last)
           THEN last.result = last.env.text
           ELSE /\ last.result[1] = "{"
                /\ ObjectKeys(last.result) = {"summary", "key_issues", "risk_factors",
                                              "investment_implication"})

\* C14 witness: the model answered with a fenced object, which is not JSON,
\* and the call returned the error object
C14_Witness ==
    /\ last.op = "analysis"
    /\ last.env.api_key = "key"
    /\ last.env.api = "ok"
    /\ last.env.text = <<"fence", "{", "summary", "s", "}", "fence">>
    /\ last.result = error_response("invalid_format")

----------------------------------------------------------------------------
(* utils/opendart.py and utils/opendart_refactored_claude.py:              *)
(* OpenDartCrawler.  A filing of dart.list is a record                     *)
(*   rcept_no   the receipt number, one token                              *)
(*   report_nm  the report name as DART sends it (blank tokens around it)  *)
(*   attach     what dart.attach_files returns: a dict, in order, of       *)
(*              <<title, url>>                                             *)
(*   page       the dict the DART download page of the filing lists        *)
(* env of one call:                                                        *)
(*   clientOk, listFail, uploadFail  the storage side                      *)
(*   list       dart.list: "ok" or "raises"                                *)
(*   attachRaises  receipt numbers for which dart.attach_files raises      *)
(*   main       the filing's main page: "match", "nomatch", "network"      *)
(*              (RequestException) or "parse" (any other exception)        *)
(*   download   the download page: "ok" or "network"                       *)
(*   downFail   URLs whose download raises RequestException                *)
(* IRNotice transliterates the report name of the IR-meeting notice.       *)

IRNotice == "GieopSeolmyeonghoeIRGaechoeAnnaegongsi"

\* str.strip() of blank tokens
RECURSIVE strip(_)
strip(s) ==
    IF s # <<>> /\ Head(s) = " " THEN strip(Tail(s))
    ELSE IF s # <<>> /\ s[Len(s)] = " " THEN strip(SubSeq(s, 1, Len(s) - 1))
    ELSE s

\* str.replace(old, new) for a one-token old and a text new
RECURSIVE replace_text(_, _, _)
replace_text(s, old, new) ==
    IF s = <<>> THEN <<>>
    ELSE (IF Head(s) = old THEN new ELSE <<Head(s)>>) \o replace_text(Tail(s), old, new)

\* s.split(sep)[-1] for a one-token sep
RECURSIVE split_last(_, _)
split_last(s, sep) ==
    IF \E i \in 1..Len(s) : s[i] = sep
    THEN split_last(Tail(s), sep)
    ELSE s

\* url.split("/")[-1]
url_basename(url) == split(url, <<>>, <<>>)[Len(split(url, <<>>, <<>>))]

\* the body of a downloaded attachment
file_content(url) == <<"bytes">> \o url

\* f"OpenDart/{company_name}/"
opendart_folder_path(company_name) == <<"OpenDart", "/">> \o company_name \o <<"/">>

\* {f.split('_')[-1].replace('.pdf', '') for f in gcs_files}
existing_rcept_nos_of(gcs_files) ==
    {replace_text(split_last(f, "_"), ".pdf", <<>>) : f \in gcs_files}

\* df[keep].head(count) for a boolean mask computed row by row
RECURSIVE df_filter(_, _, _)
df_filter(df, existing_rcept_nos, excluded) ==
    IF df = <<>> THEN <<>>
    ELSE (IF <<Head(df).rcept_no>> \notin existing_rcept_nos
             /\ strip(Head(df).report_nm) \notin excluded
          THEN <<Head(df)>> ELSE <<>>)
         \o df_filter(Tail(df), existing_rcept_nos, excluded)

head(df, count) == SubSeq(df, 1, IF count < Len(df) THEN count ELSE Len(df))

\* the progress of one call: requests made, messages printed, blobs
\* uploaded (each in order) and the bucket
DartAcc(requested, printed, uploaded, g) ==
    [requested |-> requested, printed |-> printed, uploaded |-> uploaded, g |-> g]

DartOutcome(raised, exc, company, selected, acc) ==
    [raised |-> raised, exc |-> exc, company |-> company, selected |-> selected,
     requested |-> acc.requested, printed |-> acc.printed, uploaded |-> acc.uploaded,
     g |-> acc.g]

\* opendart.OpenDartCrawler.fundamentals, the loop over files.items()
RECURSIVE files_loop(_, _, _, _, _, _)
files_loop(files, rcept_no, folder_path, m, env, acc) ==
    IF files = <<>> THEN acc
    ELSE LET title == files[1][1]
             url == files[1][2]
             fn == IF title # <<>> THEN title ELSE url_basename(url)
             file_name == replace_text(fn, ".pdf", <<"_", rcept_no, ".pdf">>)
             requested == Append(acc.requested, <<"file", url>>)
             up == upload_file(m, acc.g, env.uploadFail, file_content(url),
                               folder_path \o file_name)
         IN  IF endswith(fn, <<".html">>)
             THEN files_loop(Tail(files), rcept_no, folder_path, m, env, acc)
             ELSE IF url \in env.downFail
             THEN files_loop(Tail(files), rcept_no, folder_path, m, env,
                             DartAcc(requested, Append(acc.printed, <<"download_failed", url>>),
                                     acc.uploaded, acc.g))
             ELSE files_loop(Tail(files), rcept_no, folder_path, m, env,
                             DartAcc(requested, acc.printed,
                                     IF up.ok THEN Append(acc.uploaded, folder_path \o file_name)
                                     ELSE acc.uploaded,
                                     up.g))

\* opendart.OpenDartCrawler.fundamentals, the loop over the selected rows:
\* [raised, acc]
RECURSIVE rows_loop(_, _, _, _, _)
rows_loop(rows, folder_path, m, env, acc) ==
    IF rows = <<>> THEN [raised |-> FALSE, acc |-> acc]
    ELSE LET row == Head(rows)
             asked == DartAcc(Append(acc.requested, <<"attach_files", row.rcept_no>>),
                              acc.printed, acc.uploaded, acc.g)
             main == DartAcc(Append(asked.requested, <<"main", row.rcept_no>>),
                             asked.printed, asked.uploaded, asked.g)
             down == DartAcc(Append(main.requested, <<"download_page", row.rcept_no>>),
                             main.printed, main.uploaded, main.g)
             said(a, what) == DartAcc(a.requested, Append(a.printed, <<what, row.rcept_no>>),
                                      a.uploaded, a.g)
         IN  IF row.rcept_no \in env.attachRaises
             THEN [raised |-> TRUE, acc |-> asked]
             ELSE IF row.attach # <<>>
             THEN rows_loop(Tail(rows), folder_path, m, env,
                            files_loop(row.attach, row.rcept_no, folder_path, m, env, asked))
             ELSE IF env.main = "network"
             THEN rows_loop(Tail(rows), folder_path, m, env, said(main, "network_error"))
             ELSE IF env.main = "parse"
             THEN rows_loop(Tail(rows), folder_path, m, env, said(main, "parse_error"))
             ELSE IF env.main = "nomatch"
             THEN rows_loop(Tail(rows), folder_path, m, env, said(main, "no_files"))
             ELSE IF env.download = "network"
             THEN rows_loop(Tail(rows), folder_path, m, env, said(down, "network_error"))
             ELSE IF row.page = <<>>
             THEN rows_loop(Tail(rows), folder_path, m, env, said(down, "no_files"))
             ELSE rows_loop(Tail(rows), folder_path, m, env,
                            files_loop(row.page, row.rcept_no, folder_path, m, env, down))

\* dart.list(company, start, end): the filings of the date range, newest
\* first, for the two companies the calls name
DartList(company) ==
    IF company = <<"005930">>
    THEN << [rcept_no |-> "R4", report_nm |-> <<"Bungibogoseo">>,
             attach |-> <<>>,
             page |-> << << <<>>, <<"http:", "/", "dart", "/", "extra", ".pdf">> >> >>],
            [rcept_no |-> "R3", report_nm |-> <<"Saeopbogoseo">>,
             attach |-> << << <<"data", ".xls">>, <<"http:", "/", "dart", "/", "3a">> >>,
                           << <<"view", ".html">>, <<"http:", "/", "dart", "/", "3b">> >> >>,
             page |-> <<>>],
            [rcept_no |-> "R2", report_nm |-> <<" ", IRNotice, " ">>,
             attach |-> << << <<"ir", ".pdf">>, <<"http:", "/", "dart", "/", "2a">> >> >>,
             page |-> <<>>],
            [rcept_no |-> "R1", report_nm |-> <<"Bangibogoseo">>,
             attach |-> << << <<"report", ".pdf">>, <<"http:", "/", "dart", "/", "1a">> >> >>,
             page |-> <<>>] >>
    ELSE IF company = <<"000660">>
    THEN << [rcept_no |-> "R5", report_nm |-> <<"Bungibogoseo">>,
             attach |-> << << <<"report", ".pdf">>, <<"http:", "/", "dart", "/", "5a">> >> >>,
             page |-> <<>>] >>
    ELSE <<>>

rcept_nos(rows) == [i \in 1..Len(rows) |-> rows[i].rcept_no]

\* opendart.OpenDartCrawler.fundamentals(company="005930", count) on an
\* object whose self.company is self_company
OpenDartCrawler_fundamentals(self_company, company, count, g, env) ==
    LET m == GCSManager(env.clientOk)
        arg == IF company.some THEN company.v ELSE <<"005930">>
        self_company1 == IF arg # <<>> THEN arg ELSE self_company
        folder_name == get_company(self_company1)
        folder_path == opendart_folder_path(folder_name)
        df == DartList(self_company1)
        gcs_files == list_files(m, g, env.listFail, folder_path)
        existing_rcept_nos == existing_rcept_nos_of(gcs_files)
        df_refilter == head(df_filter(df, existing_rcept_nos, {<<IRNotice>>}), count)
        start == DartAcc(<<>>, <<>>, <<>>, g)
        done == rows_loop(df_refilter, folder_path, m, env, start)
    IN  IF env.list = "raises"
        THEN DartOutcome(TRUE, "Exception", self_company1, <<>>, start)
        ELSE DartOutcome(done.raised, IF done.raised THEN "Exception" ELSE "",
                         self_company1, rcept_nos(df_refilter), done.acc)

\* opendart_refactored_claude.OpenDartCrawler.EXCLUDED_REPORT_TYPES
EXCLUDED_REPORT_TYPES == {<<IRNotice>>}

\* OpenDartCrawler._get_reports_to_process (refactored)
_get_reports_to_process(self_company, folder_path, count, m, g, env) ==
    LET df == DartList(self_company)
        existing_files == list_files(m, g, env.listFail, folder_path)
        existing_rcept_nos == existing_rcept_nos_of(existing_files)
    IN  head(df_filter(df, existing_rcept_nos, EXCLUDED_REPORT_TYPES), count)

\* DartAttachmentParser.fetch_attachments with _parse_download_page:
\* [raised, exc, files, acc]
fetch_attachments(row, answer, acc) ==
    LET main == DartAcc(Append(acc.requested, <<"main", row.rcept_no>>),
                        acc.printed, acc.uploaded, acc.g)
        down == DartAcc(Append(main.requested, <<"download_page", row.rcept_no>>),
                        main.printed, main.uploaded, main.g)
    IN  IF answer = "network"
        THEN [raised |-> TRUE, exc |-> "RequestException", files |-> <<>>, acc |-> main]
        ELSE IF answer = "parse"
        THEN [raised |-> TRUE, exc |-> "Exception", files |-> <<>>, acc |-> main]
        ELSE IF answer = "nomatch"
        THEN [raised |-> FALSE, exc |-> "", files |-> <<>>, acc |-> main]
        ELSE IF answer = "match_network"
        THEN [raised |-> TRUE, exc |-> "RequestException", files |-> <<>>, acc |-> down]
        ELSE [raised |-> FALSE, exc |-> "", files |-> row.page, acc |-> down]

\* the answer of DART to the two page requests of one filing
page_answer(env) ==
    IF env.main # "match" THEN env.main
    ELSE IF env.download = "network" THEN "match_network" ELSE "match"

\* OpenDartCrawler._get_attachment_files (refactored): [raised, files, acc]
_get_attachment_files(row, env, acc) ==
    LET asked == DartAcc(Append(acc.requested, <<"attach_files", row.rcept_no>>),
                         acc.printed, acc.uploaded, acc.g)
        fetched == fetch_attachments(row, page_answer(env), asked)
        said(a, what) == DartAcc(a.requested, Append(a.printed, <<what, row.rcept_no>>),
                                 a.uploaded, a.g)
    IN  IF row.rcept_no \in env.attachRaises
        THEN [raised |-> TRUE, files |-> <<>>, acc |-> asked]
        ELSE IF row.attach # <<>>
        THEN [raised |-> FALSE, files |-> row.attach, acc |-> asked]
        ELSE IF fetched.raised /\ fetched.exc = "RequestException"
        THEN [raised |-> FALSE, files |-> <<>>, acc |-> said(fetched.acc, "network_error")]
        ELSE IF fetched.raised
        THEN [raised |-> FALSE, files |-> <<>>, acc |-> said(fetched.acc, "parse_error")]
        ELSE [raised |-> FALSE, files |-> fetched.files, acc |-> fetched.acc]

\* OpenDartCrawler._download_and_upload_file (refactored)
_download_and_upload_file(filename, url, rcept_no, folder_path, m, env, acc) ==
    LET filename1 == IF filename = <<>> THEN url_basename(url) ELSE filename
        destination_name == replace_text(filename1, ".pdf", <<"_", rcept_no, ".pdf">>)
        requested == Append(acc.requested, <<"file", url>>)
        up == upload_file(m, acc.g, env.uploadFail, file_content(url),
                          folder_path \o destination_name)
    IN  IF endswith(filename1, <<".html">>) THEN acc
        ELSE IF url \in env.downFail
        THEN DartAcc(requested, Append(acc.printed, <<"download_failed", url>>),
                     acc.uploaded, acc.g)
        ELSE DartAcc(requested, acc.printed,
                     IF up.ok THEN Append(acc.uploaded, folder_path \o destination_name)
                     ELSE acc.uploaded,
                     up.g)

\* OpenDartCrawler._process_single_report, the loop over files.items()
RECURSIVE _process_files(_, _, _, _, _, _)
_process_files(files, rcept_no, folder_path, m, env, acc) ==
    IF files = <<>> THEN acc
    ELSE _process_files(Tail(files), rcept_no, folder_path, m, env,
                        _download_and_upload_file(files[1][1], files[1][2], rcept_no,
                                                  folder_path, m, env, acc))

\* OpenDartCrawler._process_single_report (refactored): [raised, acc]
_process_single_report(row, folder_path, m, env, acc) ==
    LET got == _get_attachment_files(row, env, acc)
    IN  IF got.raised THEN [raised |-> TRUE, acc |-> got.acc]
        ELSE IF got.files = <<>>
        THEN [raised |-> FALSE,
              acc |-> DartAcc(got.acc.requested,
                              Append(got.acc.printed, <<"no_files", row.rcept_no>>),
                              got.acc.uploaded, got.acc.g)]
        ELSE [raised |-> FALSE,
              acc |-> _process_files(got.files, row.rcept_no, folder_path, m, env, got.acc)]

\* OpenDartCrawler.crawl_fundamentals, the loop over reports_to_process
RECURSIVE _process_reports(_, _, _, _, _)
_process_reports(rows, folder_path, m, env, acc) ==
    IF rows = <<>> THEN [raised |-> FALSE, acc |-> acc]
    ELSE LET one == _process_single_report(Head(rows), folder_path, m, env, acc)
         IN  IF one.raised THEN one
             ELSE _process_reports(Tail(rows), folder_path, m, env, one.acc)

\* opendart_refactored_claude.OpenDartCrawler.crawl_fundamentals(company=None,
\* count), also bound to the name fundamentals, on an object whose
\* self.company is self_company
crawl_fundamentals(self_company, company, count, g, env) ==
    LET m == GCSManager(env.clientOk)
        self_company1 == IF company.some /\ company.v # <<>> THEN company.v
                         ELSE self_company
        company_name == get_company(self_company1)
        folder_path == opendart_folder_path(company_name)
        reports_to_process == _get_reports_to_process(self_company1, folder_path, count,
                                                      m, g, env)
        start == DartAcc(<<>>, <<>>, <<>>, g)
        done == _process_reports(reports_to_process, folder_path, m, env, start)
    IN  IF env.list = "raises"
        THEN DartOutcome(TRUE, "Exception", self_company1, <<>>, start)
        ELSE DartOutcome(done.raised, IF done.raised THEN "Exception" ELSE "",
                         self_company1, rcept_nos(reports_to_process), done.acc)

----------------------------------------------------------------------------
(* The OpenDart state machine: one crawler object, of the original or of   *)
(* the refactored class, constructed for a company over an empty bucket    *)
(* and called repeatedly.  last.company is the object's self.company.      *)

MaxCount == 2

DartCompanies == {<<"005930">>, <<"000660">>}
DartArgs == {Absent, Some(<<>>)} \cup {Some(c) : c \in DartCompanies}

DHealthy ==
    [clientOk |-> TRUE, listFail |-> FALSE, uploadFail |-> FALSE, list |-> "ok",
     attachRaises |-> {}, main |-> "match", download |-> "ok", downFail |-> {}]

DartEnvs ==
    {DHealthy,
     [DHealthy EXCEPT !.clientOk = FALSE],
     [DHealthy EXCEPT !.listFail = TRUE],
     [DHealthy EXCEPT !.uploadFail = TRUE],
     [DHealthy EXCEPT !.list = "raises"],
     [DHealthy EXCEPT !.attachRaises = {"R3"}],
     [DHealthy EXCEPT !.main = "network"],
     [DHealthy EXCEPT !.main = "parse"],
     [DHealthy EXCEPT !.main = "nomatch"],
     [DHealthy EXCEPT !.download = "network"],
     [DHealthy EXCEPT !.downFail = {<<"http:", "/", "dart", "/", "3a">>}]}

DartNoCall(impl, company) ==
    [op |-> "none", impl |-> impl, self_company |-> company, arg |-> Absent, count |-> 0,
     env |-> DHealthy, pre |-> EmptyBucket, raised |-> FALSE, company |-> company,
     selected |-> <<>>, requested |-> <<>>, printed |-> <<>>, uploaded |-> <<>>]

InitDart ==
    /\ today = [year |-> 2025, month |-> 11]
    /\ gcs = EmptyBucket
    /\ bq = [exists |-> FALSE, rows |-> <<>>]
    /\ fetches = 0
    /\ \E impl \in {"original", "refactored"}, company \in DartCompanies :
           last = DartNoCall(impl, company)

DartStep(company, count, env, o) ==
    /\ gcs' = o.g
    /\ last' = [op |-> "fundamentals", impl |-> last.impl, self_company |-> last.company,
                arg |-> company, count |-> count, env |-> env, pre |-> gcs,
                raised |-> o.raised, company |-> o.company, selected |-> o.selected,
                requested |-> o.requested, printed |-> o.printed, uploaded |-> o.uploaded]
    /\ UNCHANGED <<today, bq, fetches>>

\* a call of opendart.OpenDartCrawler.fundamentals
Fundamentals ==
    /\ last.impl = "original"
    /\ \E company \in DartArgs, count \in 1..MaxCount, env \in DartEnvs :
           DartStep(company, count, env,
                    OpenDartCrawler_fundamentals(last.company, company, count, gcs, env))

\* a call of opendart_refactored_claude.OpenDartCrawler.fundamentals
CrawlFundamentals ==
    /\ last.impl = "refactored"
    /\ \E company \in DartArgs, count \in 1..MaxCount, env \in DartEnvs :
           DartStep(company, count, env,
                    crawl_fundamentals(last.company, company, count, gcs, env))

NextDart == Fundamentals \/ CrawlFundamentals

SpecDart == InitDart /\ [][NextDart]_vars

\* the attachments of a filing that are not .html pages: those of
\* attach_files, or those of its download page when attach_files has none
DartFiles(f) ==
    LET files == IF f.attach # <<>> THEN f.attach ELSE f.page
    IN  {files[i] : i \in {j \in 1..Len(files) :
            ~endswith(IF files[j][1] # <<>> THEN files[j][1] ELSE url_basename(files[j][2]),
                      <<".html">>)}}

\* every attachment of filing f is a blob of bucket g
DartStored(f, g) ==
    /\ DartFiles(f) # {}
    /\ \A a \in DartFiles(f) : \E n \in DOMAIN g : g[n] = file_content(a[2])

\* the call recorded in l downloaded an attachment of filing f
DartDownloaded(f, l) ==
    \E a \in DartFiles(f), i \in 1..Len(l.requested) : l.requested[i] = <<"file", a[2]>>

DartRows(company) == {DartList(company)[i] : i \in 1..Len(DartList(company))}

\* C15: a call whose listing of the company's folder succeeds downloads no
\* attachment of a filing whose attachments all are in the bucket already,
\* uploaded by an earlier call.
C15_NoSecondDownload ==
    (last.op = "fundamentals" /\ last.env.clientOk /\ ~last.env.listFail)
    => \A f \in DartRows(last.company) :
           DartStored(f, last.pre) => ~DartDownloaded(f, last)


\* the set of values of a sequence
Range(s) == {s[i] : i \in 1..Len(s)}

\* C16: for the constructor argument and call arguments of the recorded
\* call, with every DART and GCS request answered without failure, the
\* original and the refactored fundamentals select the same filings in the
\* same order and upload the same set of blobs under the same names.
C16_SameSelectionAndUploads ==
    (last.op = "fundamentals" /\ last.env = DHealthy)
    => LET o == OpenDartCrawler_fundamentals(last.self_company, last.arg, last.count,
                                             last.pre, last.env)
           r == crawl_fundamentals(last.self_company, last.arg, last.count,
                                   last.pre, last.env)
       IN  /\ o.selected = r.selected
           /\ Range(o.uploaded) = Range(r.uploaded)
           /\ o.g = r.g


----------------------------------------------------------------------------
(* utils/gcpmanager.py: BQManager.__init__ and the class attribute         *)
(* BQManager._dataset_checked.  In this state machine bq is the state the  *)
(* constructions share: [dataset |-> the dataset "stocks" exists,          *)
(* _dataset_checked |-> the class attribute].  env of one construction:    *)
(*   clientOk    bigquery.Client() came up                                 *)
(*   getDataset  "answer" (found or NotFound, as the dataset is) or "error"*)
(*   createFail  create_dataset raises                                     *)

MaxManagers == 4

\* BQManager._ensure_dataset_exists: [ok |-> returned value, dataset |->
\* whether the dataset exists afterwards]
_ensure_dataset_exists(self, dataset, env) ==
    IF self.bq_client = "None" THEN [ok |-> FALSE, dataset |-> dataset]
    ELSE IF env.getDataset = "error" THEN [ok |-> FALSE, dataset |-> dataset]
    ELSE IF dataset THEN [ok |-> TRUE, dataset |-> dataset]
    ELSE IF env.createFail THEN [ok |-> FALSE, dataset |-> dataset]
    ELSE [ok |-> TRUE, dataset |-> TRUE]

\* __init__ testing only the client before the dataset check
BQManager__init__always(project_id, shared, env) ==
    LET self == BQManager(env.clientOk)
        ensured == _ensure_dataset_exists(self, shared.dataset, env)
    IN  IF self.bq_client # "None"
        THEN [self |-> self, asked |-> TRUE, ok |-> ensured.ok,
              shared |-> [dataset |-> ensured.dataset,
                          _dataset_checked |-> shared._dataset_checked \/ ensured.ok]]
        ELSE [self |-> self, asked |-> FALSE, ok |-> FALSE, shared |-> shared]

\* BQManager.__init__: asked tells whether _ensure_dataset_exists was called
BQManager__init__(project_id, shared, env) ==
    LET self == BQManager(env.clientOk)
        ensured == _ensure_dataset_exists(self, shared.dataset, env)
    IN  IF self.bq_client # "None" /\ ~shared._dataset_checked
        THEN [self |-> self, asked |-> TRUE, ok |-> ensured.ok,
              shared |-> [dataset |-> ensured.dataset,
                          _dataset_checked |-> IF ensured.ok THEN TRUE
                                               ELSE shared._dataset_checked]]
        ELSE [self |-> self, asked |-> FALSE, ok |-> FALSE, shared |-> shared]

BQInitEnvs == [clientOk : BOOLEAN, getDataset : {"answer", "error"}, createFail : BOOLEAN]

\* the process starts with the class attribute False and no manager
InitBQInit ==
    /\ today = [year |-> 2025, month |-> 11]
    /\ gcs = EmptyBucket
    /\ \E dataset \in BOOLEAN : bq = [dataset |-> dataset, _dataset_checked |-> FALSE]
    /\ fetches = 0
    /\ last = [op |-> "none", project_id |-> "", constructed |-> 0,
               env |-> [clientOk |-> TRUE, getDataset |-> "answer", createFail |-> FALSE],
               pre |-> [dataset |-> FALSE, _dataset_checked |-> FALSE],
               asked |-> FALSE, ok |-> FALSE]

\* BQManager(project_id)
ConstructBQManager ==
    \E project_id \in {"sayouzone-ai", "other"}, env \in BQInitEnvs :
        LET o == BQManager__init__(project_id, bq, env)
        IN  /\ last.constructed < MaxManagers
            /\ bq' = o.shared
            /\ last' = [op |-> "BQManager", project_id |-> project_id,
                        constructed |-> last.constructed + 1, env |-> env, pre |-> bq,
                        asked |-> o.asked, ok |-> o.ok]
            /\ UNCHANGED <<today, gcs, fetches>>

NextBQInit == ConstructBQManager

SpecBQInit == InitBQInit /\ [][NextBQInit]_vars

\* C17 as stated: every construction whose client came up performs the
\* dataset-existence check, however many managers were constructed before.
C17_SameCheckEveryTime ==
    (last.op = "BQManager" /\ last.env.clientOk) => last.asked

\* C17 amended: a construction whose client came up performs the
\* dataset-existence check exactly when the class attribute left behind by
\* the earlier constructions is still False; the attribute becomes True
\* when the check succeeds and is never reset.
C17_CheckUntilFirstSuccess ==
    last.op = "BQManager"
    => /\ last.asked = (last.env.clientOk /\ ~last.pre._dataset_checked)
       /\ bq._dataset_checked = (last.pre._dataset_checked \/ (last.asked /\ last.ok))
       /\ (~last.asked => bq = last.pre)

\* C17 witness: a manager constructed after two others, with a working
\* client, found the class attribute True and skipped the check
C17_Witness ==
    /\ last.op = "BQManager"
    /\ last.constructed = 3
    /\ last.env.clientOk
    /\ last.pre._dataset_checked
    /\ ~last.asked


----------------------------------------------------------------------------
(* utils/naverfinance.py: _find_last_page_number and _crawl_price_history. *)
(* A request is <<"sise_day", page>>: the GET of sise_day.nhn?code=..&page.*)
(* env of one call:                                                        *)
(*   probe  the answer to the request of _find_last_page_number: kind is   *)
(*          "error" (any exception), "nomatch" (no .pgRR link with page=N) *)
(*          or "match", with n the number N of that link                   *)
(*   pages  for each page the answer to the request of the loop: "ok" (a   *)
(*          table with rows), "empty" (a table of empty rows only),        *)
(*          "http_error" or "parse_error" (read_html raises)               *)
(* The rows of a page are identified by the page number; the result is the *)
(* sequence of the pages whose rows were kept.                             *)

MaxPage == 3

\* naverfinance._find_last_page_number
_find_last_page_number(company_code, env) ==
    [requested |-> << <<"sise_day", 1>> >>,
     last_page_number |-> IF env.probe.kind \in {"error", "nomatch"} THEN 1 ELSE env.probe.n]

\* naverfinance._crawl_price_history, the loop over range(1, final_max_page + 1):
\* the requests made, the messages printed, the progress events yielded and
\* full_df
RECURSIVE price_pages_loop(_, _, _, _)
price_pages_loop(page, final_max_page, env, acc) ==
    IF page > final_max_page THEN acc
    ELSE LET asked == [acc EXCEPT !.requested = Append(@, <<"sise_day", page>>),
                                  !.progress = Append(@, page)]
         IN  price_pages_loop(page + 1, final_max_page, env,
                 IF env.pages[page] \in {"http_error", "parse_error"}
                 THEN [asked EXCEPT !.printed = Append(@, page)]
                 ELSE IF env.pages[page] = "empty" THEN asked
                 ELSE [asked EXCEPT !.full_df = Append(@, page)])

\* naverfinance._crawl_price_history(company_code, client, max_page)
_crawl_price_history(company_code, max_page, env) ==
    LET found == _find_last_page_number(company_code, env)
        last_page == found.last_page_number
        final_max_page == IF max_page.some /\ max_page.v # 0
                          THEN (IF max_page.v < last_page THEN max_page.v ELSE last_page)
                          ELSE last_page
    IN  price_pages_loop(1, final_max_page, env,
                         [requested |-> found.requested, printed |-> <<>>,
                          progress |-> <<>>, full_df |-> <<>>])

PriceEnvs ==
    [probe : {[kind |-> "error", n |-> 1], [kind |-> "nomatch", n |-> 1]}
             \cup {[kind |-> "match", n |-> n] : n \in 1..MaxPage},
     pages : [1..MaxPage -> {"ok", "empty", "http_error", "parse_error"}]]

InitNaver ==
    /\ today = [year |-> 2025, month |-> 11]
    /\ gcs = EmptyBucket
    /\ bq = [exists |-> FALSE, rows |-> <<>>]
    /\ fetches = 0
    /\ last = [op |-> "none", max_page |-> Absent,
               env |-> [probe |-> [kind |-> "nomatch", n |-> 1], pages |-> [p \in 1..MaxPage |-> "ok"]],
               requested |-> <<>>, printed |-> <<>>, progress |-> <<>>, full_df |-> <<>>]

CrawlPriceHistory ==
    \E max_page \in {Absent} \cup {Some(n) : n \in 0..MaxPage}, env \in PriceEnvs :
        LET o == _crawl_price_history(<<"005930">>, max_page, env)
        IN  /\ last' = [op |-> "_crawl_price_history", max_page |-> max_page, env |-> env,
                        requested |-> o.requested, printed |-> o.printed,
                        progress |-> o.progress, full_df |-> o.full_df]
            /\ UNCHANGED <<today, gcs, bq, fetches>>

NextNaver == CrawlPriceHistory

SpecNaver == InitNaver /\ [][NextNaver]_vars

\* C18: within one call of _crawl_price_history no price-history page is
\* requested more than once.
C18_EachPageOnce ==
    last.op = "_crawl_price_history"
    => \A i, j \in 1..Len(last.requested) :
           last.requested[i] = last.requested[j] => i = j


----------------------------------------------------------------------------
(* examples/edgar/analyze_edgar_with_claude.py: SECEdgarClient.            *)
(* A CIK or ticker is a text of one-character tokens.  The client's events *)
(* are, in order, the delays it slept (<<"delay">>) and the requests it    *)
(* issued (<<"GET">> \o url).  env of one call: response is "ok" or        *)
(* "error" (requests.get or raise_for_status raises).                      *)

MaxEdgarCalls == 3

\* str.zfill(10)
RECURSIVE zfill10(_)
zfill10(s) == IF Len(s) >= 10 THEN s ELSE zfill10(<<"0">> \o s)

\* accession_number.replace("-", "")
remove_hyphens(s) == replace_text(s, "-", <<>>)

\* company_tickers.json: the entries, in order
company_tickers ==
    << [cik_str |-> <<"3", "2", "0", "1", "9", "3">>, ticker |-> <<"A", "A", "P", "L">>],
       [cik_str |-> <<"7", "8", "9", "0", "1", "9">>, ticker |-> <<"M", "S", "F", "T">>] >>

\* str.upper() of a text of one-character tokens
upper_chars(s) ==
    [i \in 1..Len(s) |->
        CASE s[i] = "a" -> "A" [] s[i] = "p" -> "P" [] s[i] = "l" -> "L"
          [] s[i] = "m" -> "M" [] s[i] = "s" -> "S" [] s[i] = "f" -> "F"
          [] s[i] = "t" -> "T" [] s[i] = "z" -> "Z" [] OTHER -> s[i]]

\* SECEdgarClient._rate_limit: time.sleep(self.rate_limit_delay)
_rate_limit(events) == Append(events, <<"delay">>)

\* requests.get(url, headers=self.headers)
requests_get(events, url) == Append(events, <<"GET">> \o url)

EdgarOutcome(events, result) == [events |-> events, result |-> result]

\* SECEdgarClient.get_company_cik
get_company_cik(events, ticker, env) ==
    LET url == <<"https://www.sec.gov/files/company_tickers.json">>
        requested == requests_get(_rate_limit(events), url)
        hits == {i \in 1..Len(company_tickers) :
                    upper_chars(company_tickers[i].ticker) = upper_chars(ticker)}
    IN  IF env.response = "error" THEN EdgarOutcome(requested, None)
        ELSE IF hits = {} THEN EdgarOutcome(requested, None)
        ELSE EdgarOutcome(requested,
                 zfill10(company_tickers[CHOOSE i \in hits : \A j \in hits : i <= j].cik_str))

\* get_submissions without the call of _rate_limit
get_submissions_nodelay(events, cik, env) ==
    LET url == <<"https://data.sec.gov", "/submissions/CIK">> \o zfill10(cik) \o <<".json">>
        requested == requests_get(events, url)
    IN  IF env.response = "error" THEN EdgarOutcome(requested, <<"{}">>)
        ELSE EdgarOutcome(requested, <<"json">> \o url)

\* SECEdgarClient.get_submissions
get_submissions(events, cik, env) ==
    LET url == <<"https://data.sec.gov", "/submissions/CIK">> \o zfill10(cik) \o <<".json">>
        requested == requests_get(_rate_limit(events), url)
    IN  IF env.response = "error" THEN EdgarOutcome(requested, <<"{}">>)
        ELSE EdgarOutcome(requested, <<"json">> \o url)

\* SECEdgarClient.get_company_facts
get_company_facts(events, cik, env) ==
    LET url == <<"https://data.sec.gov", "/api/xbrl/companyfacts/CIK">> \o zfill10(cik)
               \o <<".json">>
        requested == requests_get(_rate_limit(events), url)
    IN  IF env.response = "error" THEN EdgarOutcome(requested, <<"{}">>)
        ELSE EdgarOutcome(requested, <<"json">> \o url)

\* SECEdgarClient.get_company_concept
get_company_concept(events, cik, taxonomy, concept, env) ==
    LET url == <<"https://data.sec.gov", "/api/xbrl/companyconcept/CIK">> \o zfill10(cik)
               \o <<"/", taxonomy, "/", concept, ".json">>
        requested == requests_get(_rate_limit(events), url)
    IN  IF env.response = "error" THEN EdgarOutcome(requested, <<"{}">>)
        ELSE EdgarOutcome(requested, <<"json">> \o url)

\* SECEdgarClient.download_filing
download_filing(events, accession_number, cik, primary_document, env) ==
    LET acc_no == remove_hyphens(accession_number)
        url == <<"https://www.sec.gov/Archives/edgar/data/">> \o zfill10(cik) \o <<"/">>
               \o acc_no \o <<"/", primary_document>>
        requested == requests_get(_rate_limit(events), url)
    IN  IF env.response = "error" THEN EdgarOutcome(requested, None)
        ELSE EdgarOutcome(requested, <<"html">> \o url)

EdgarTickers == {<<"A", "A", "P", "L">>, <<"m", "s", "f", "t">>, <<"Z", "Z">>}
EdgarCiks == {<<"3", "2", "0", "1", "9", "3">>, <<"0", "0", "0", "0", "7", "8", "9", "0", "1", "9">>}
EdgarEnvs == [response : {"ok", "error"}]

\* the client after SECEdgarClient(company_name, email): no event yet
InitEdgar ==
    /\ today = [year |-> 2025, month |-> 11]
    /\ gcs = EmptyBucket
    /\ bq = [exists |-> FALSE, rows |-> <<>>]
    /\ fetches = 0
    /\ last = [op |-> "none", calls |-> 0, events |-> <<>>, env |-> [response |-> "ok"],
               result |-> None]

EdgarStep(op, env, o) ==
    /\ last.calls < MaxEdgarCalls
    /\ last' = [op |-> op, calls |-> last.calls + 1, events |-> o.events, env |-> env,
                result |-> o.result]
    /\ UNCHANGED <<today, gcs, bq, fetches>>

GetCompanyCik ==
    \E ticker \in EdgarTickers, env \in EdgarEnvs :
        EdgarStep("get_company_cik", env, get_company_cik(last.events, ticker, env))

GetSubmissions ==
    \E cik \in EdgarCiks, env \in EdgarEnvs :
        EdgarStep("get_submissions", env, get_submissions(last.events, cik, env))

GetCompanyFacts ==
    \E cik \in EdgarCiks, env \in EdgarEnvs :
        EdgarStep("get_company_facts", env, get_company_facts(last.events, cik, env))

GetCompanyConcept ==
    \E cik \in EdgarCiks, concept \in {"AccountsPayableCurrent", "Revenues"},
       env \in EdgarEnvs :
        EdgarStep("get_company_concept", env,
                  get_company_concept(last.events, cik, "us-gaap", concept, env))

DownloadFiling ==
    \E cik \in EdgarCiks, env \in EdgarEnvs :
        EdgarStep("download_filing", env,
                  download_filing(last.events, <<"0000320193", "-", "25", "-", "000079">>,
                                  cik, "aapl-10k.htm", env))

NextEdgar ==
    GetCompanyCik \/ GetSubmissions \/ GetCompanyFacts \/ GetCompanyConcept \/ DownloadFiling

SpecEdgar == InitEdgar /\ [][NextEdgar]_vars

IsRequest(e) == e # <<>> /\ e[1] = "GET"

\* C19: among the events of one client every request comes directly after
\* a delay, every delay is directly followed by a request (one delay per
\* request), and so no two requests are issued without a delay between them.
C19_DelayBeforeEachRequest ==
    LET ev == last.events
    IN  /\ \A i \in 1..Len(ev) :
               IsRequest(ev[i]) => (i > 1 /\ ev[i - 1] = <<"delay">>)
        /\ \A i \in 1..Len(ev) :
               ev[i] = <<"delay">> => (i < Len(ev) /\ IsRequest(ev[i + 1]))
        /\ Len(ev) = 2 * last.calls

\* C19 witness: three calls were made, the second a get_submissions and the
\* third a download_filing, and three requests were issued
C19_Witness ==
    /\ last.calls = 3
    /\ last.op = "download_filing"
    /\ Len(last.events) = 6
    /\ last.events[4] = <<"GET", "https://data.sec.gov", "/submissions/CIK">>
                        \o zfill10(<<"3", "2", "0", "1", "9", "3">>) \o <<".json">>
    /\ IsRequest(last.events[6])


----------------------------------------------------------------------------
(* utils/crawler/fnguide.py: the cache paths get_all_fundamentals computes *)
(* from date.today() and self.stock, for every month of two years.         *)

\* get_all_fundamentals, lines 184-199: quarter, folder_name,
\* misspelled_folder and legacy_folder
partition_paths(stock, day) ==
    LET quarter == quarter_of(day.month)
        folder_name == folder_name_of(day.year, quarter)
    IN  [quarter |-> quarter,
         folder_name |-> folder_name,
         misspelled_folder |-> _partition_alias(folder_name),
         legacy_folder |-> _legacy_folder_from_current(folder_name, stock,
                               <<Str(day.year)>>, <<Str(quarter)>>)]

PathStocks == StockForms \cup {<<"000660">>, <<"AAPL">>}

InitPath ==
    /\ today \in [year : {2025, 2026}, month : 1..12]
    /\ gcs = EmptyBucket
    /\ bq = [exists |-> FALSE, rows |-> <<>>]
    /\ fetches = 0
    /\ last = [op |-> "none", stock |-> <<>>, quarter |-> 1, folder_name |-> <<>>,
               misspelled_folder |-> <<>>, legacy_folder |-> <<>>]

\* the path computation of FnGuideCrawler(stock).get_all_fundamentals()
PartitionPaths ==
    \E stock \in PathStocks :
        LET p == partition_paths(stock, today)
        IN  /\ last' = [op |-> "partition_paths", stock |-> stock, quarter |-> p.quarter,
                        folder_name |-> p.folder_name,
                        misspelled_folder |-> p.misspelled_folder,
                        legacy_folder |-> p.legacy_folder]
            /\ UNCHANGED <<today, gcs, bq, fetches>>

NextPath == PartitionPaths

SpecPath == InitPath /\ [][NextPath]_vars

\* C20: for every month the quarter is 1 for months 1-3, 2 for 4-6, 3 for
\* 7-9 and 4 for 10-12, so within 1..4; the folder is
\* Fundamentals/FnGuide/year=<year>/quarter=<quarter>/ and the legacy folder
\* is /Fundamentals/FnGuide/<stock>/<year>-Q<quarter>/raw/.
C20_DatePartitionedPath ==
    last.op = "partition_paths"
    => /\ last.quarter \in 1..4
       /\ last.quarter = (CASE today.month \in 1..3 -> 1 [] today.month \in 4..6 -> 2
                            [] today.month \in 7..9 -> 3 [] today.month \in 10..12 -> 4)
       /\ last.folder_name = <<"Fundamentals", "/", "FnGuide", "/", "year=",
                               Str(today.year), "/", "quarter=", Str(last.quarter), "/">>
       /\ last.legacy_folder = <<"/", "Fundamentals", "/", "FnGuide", "/">> \o last.stock
                               \o <<"/", Str(today.year), "-Q", Str(last.quarter),
                                    "/", "raw", "/">>

\* C20 witness: in July 2026 the paths of 000660 are those of quarter 3
C20_Witness ==
    /\ last.op = "partition_paths"
    /\ today = [year |-> 2026, month |-> 7]
    /\ last.stock = <<"000660">>
    /\ last.quarter = 3
    /\ last.legacy_folder = <<"/", "Fundamentals", "/", "FnGuide", "/", "000660", "/",
                              "2026", "-Q", "3", "/", "raw", "/">>


----------------------------------------------------------------------------
(* utils/crawler/fnguide.py: _get_finance, the loop over the rows of       *)
(* tbody.  A row (a tr) is a record                                        *)
(*   th      the row has a th                                              *)
(*   span    Some(text of the first span inside the th) or Absent          *)
(*   rest    the text of the th outside the span                           *)
(*   values  the texts of the row's td cells                               *)
(* Texts are token sequences, <<>> the empty string; get_text(strip=True)  *)
(* of the th is the span's text followed by the rest.                      *)

MaxRows == 3

\* th.get_text(strip=True)
th_get_text(tr) == (IF tr.span.some THEN tr.span.v ELSE <<>>) \o tr.rest

\* "if last_span_text:"
truthy(text) == text # None /\ text # <<>>

\* _get_finance, lines 507-572: the rows in order.  acc is [last_span_text,
\* columns, data_dict]: columns holds for every row its column_name_tuple,
\* or None for a row without th
RECURSIVE tbody_loop(_, _, _)
tbody_loop(tbody_trs, index_list, acc) ==
    IF tbody_trs = <<>> THEN acc
    ELSE LET tr == Head(tbody_trs)
             th_text == th_get_text(tr)
             last_span_text == IF tr.span.some THEN tr.span.v ELSE acc.last_span_text
             column_name_tuple ==
                 IF tr.span.some THEN <<tr.span.v, th_text>>
                 ELSE IF truthy(acc.last_span_text) THEN <<acc.last_span_text, th_text>>
                 ELSE <<th_text, <<>> >>
             values == tr.values
         IN  IF ~tr.th
             THEN tbody_loop(Tail(tbody_trs), index_list,
                             [acc EXCEPT !.columns = Append(@, None)])
             ELSE tbody_loop(Tail(tbody_trs), index_list,
                     [last_span_text |-> last_span_text,
                      columns |-> Append(acc.columns, column_name_tuple),
                      data_dict |-> IF values # <<>> /\ Len(values) = Len(index_list)
                                    THEN Put(acc.data_dict, column_name_tuple, values)
                                    ELSE acc.data_dict])

\* _get_finance, lines 489-572: data_dict of one table
_get_finance_tbody(tbody_trs, index_list) ==
    tbody_loop(tbody_trs, index_list,
               [last_span_text |-> None, columns |-> <<>>, data_dict |-> <<>>])

\* the rows a table body is made of: one without th, and rows with th with
\* or without a span, whose cells are none, as many as the periods, or more
TableRows ==
    {[th |-> FALSE, span |-> Absent, rest |-> <<>>, values |-> <<>>]}
    \cup [th : {TRUE}, span : {Absent, Some(<<>>), Some(<<"A">>), Some(<<"B">>)},
          rest : {<<"x">>, <<"y">>}, values : {<<>>, <<"1">>, <<"1", "2">>}]

TableBodies == UNION {[1..n -> TableRows] : n \in 0..MaxRows}

\* a table with one period whose body was parsed, before the loop
InitTable ==
    /\ today = [year |-> 2025, month |-> 11]
    /\ gcs = EmptyBucket
    /\ bq = [exists |-> FALSE, rows |-> <<>>]
    /\ fetches = 0
    /\ \E tbody_trs \in TableBodies :
           last = [op |-> "parsed", tbody_trs |-> tbody_trs, index_list |-> <<"2024/12">>,
                   columns |-> <<>>, data_dict |-> <<>>]

\* _get_finance running the loop over the body of the parsed table
GetFinanceTbody ==
    /\ last.op = "parsed"
    /\ LET o == _get_finance_tbody(last.tbody_trs, last.index_list)
       IN  last' = [last EXCEPT !.op = "_get_finance", !.columns = o.columns,
                                !.data_dict = o.data_dict]
    /\ UNCHANGED <<today, gcs, bq, fetches>>

NextTable == GetFinanceTbody

SpecTable == InitTable /\ [][NextTable]_vars

\* the rows before row i that have a th with a span
SpanRowsBefore(rows, i) == {j \in 1..(i - 1) : rows[j].th /\ rows[j].span.some}

\* the text of the span of the most recent span row before row i
RecentSpanText(rows, i) ==
    rows[CHOOSE j \in SpanRowsBefore(rows, i) :
             \A k \in SpanRowsBefore(rows, i) : k <= j].span.v

\* C21: a row with a span gets the column (span text, header text); a row
\* without a span gets (text of the most recent preceding span row, header
\* text), or (header text, "") if no span row came before it; a span row
\* dropped for its number of values still is the most recent category.
C21_HierarchicalColumns ==
    last.op = "_get_finance"
    => \A i \in 1..Len(last.tbody_trs) :
           LET tr == last.tbody_trs[i]
           IN  tr.th =>
                 last.columns[i] =
                    IF tr.span.some THEN <<tr.span.v, th_get_text(tr)>>
                    ELSE IF SpanRowsBefore(last.tbody_trs, i) # {}
                    THEN <<RecentSpanText(last.tbody_trs, i), th_get_text(tr)>>
                    ELSE <<th_get_text(tr), <<>> >>

====
